---- MODULE Spec2Model ----
(***************************************************************************)
(* Model of the conslog console handler (package conslog) and of the       *)
(* logging front end (package logging).                                    *)
(*                                                                         *)
(* Text is modelled as a sequence of tokens.  A token is one complete line *)
(* of output (header line, group header line, attribute line) or, when a   *)
(* render is cut short by a panic, the indentation that was written before *)
(* the encoder failed.  A string of spaces is modelled by its length.      *)
(***************************************************************************)
EXTENDS Integers, Sequences, FiniteSets, TLC

VARIABLES
    handlers,     \* heap of ConsoleHandler objects; the index is the pointer
    arrays,       \* heap of backing arrays of []string slices
    mutex,        \* mutex id -> thread holding it, 0 when unlocked
    sink,         \* sink id -> tokens written so far, each tagged with its call
    builders,     \* heap of pooled strings.Builder objects (their content)
    builderPool,  \* builders currently in builderPool
    encoders,     \* heap of pooled jsonEncoder objects
    encoderPool,  \* encoders currently in encoderPool
    indentCache,  \* the published indentation table, <<>> while nil
    pc,           \* thread -> position inside Handle
    cur,          \* thread -> the Handle call it is executing
    calls,        \* history of the Handle calls started so far
    last,         \* the Enabled / WithAttrs / WithGroup call that has just returned
    ops,          \* number of calls made so far
    levelVar      \* the value of the slog.LevelVar a logger's handlers point to

vars == <<handlers, arrays, mutex, sink, builders, builderPool, encoders,
          encoderPool, indentCache, pc, cur, calls, last, ops, levelVar>>

(***************************************************************************)
(* Bounds of the model.                                                    *)
(***************************************************************************)
MaxOps == 3           \* calls made in one behaviour
NThreads == 2         \* concurrent callers
MaxSpare == 1         \* room append leaves in a new array, beyond what it needs

Threads == 1..NThreads

(***************************************************************************)
(* Program constants.                                                      *)
(***************************************************************************)
maxIndent == 30
LevelDebug == -4
LevelInfo == 0
LevelWarn == 4
LevelError == 8

(***************************************************************************)
(* Attributes, records and the inputs the callers draw from.               *)
(***************************************************************************)
StringAttr(k, v) == [key |-> k, kind |-> "string", str |-> v, group |-> <<>>]
IntAttr(k, v) == [key |-> k, kind |-> "other", str |-> v, group |-> <<>>]
ChanAttr(k) == [key |-> k, kind |-> "other", str |-> "chan", group |-> <<>>]
GroupAttr(k, as) == [key |-> k, kind |-> "group", str |-> "", group |-> as]
EmptyAttr == [key |-> "", kind |-> "other", str |-> "null", group |-> <<>>]

NewRecord(tm, lvl, msg, as) == [time |-> tm, level |-> lvl, msg |-> msg, attrs |-> as]

Names == {"", "g", "h"}

AttrLists ==
    { <<>>,
      <<StringAttr("k", "v")>>,
      <<EmptyAttr, GroupAttr("s", <<IntAttr("n", "7"), GroupAttr("e", <<>>)>>)>>,
      <<GroupAttr("s", <<IntAttr("n", "7"), ChanAttr("bad")>>)>> }

Records ==
    { NewRecord(FALSE, LevelInfo, "m0", <<>>),
      NewRecord(TRUE, LevelError + 2, "m1",
                <<GroupAttr("", <<IntAttr("", "42")>>), StringAttr("k", "v")>>),
      NewRecord(FALSE, LevelDebug, "m2",
                <<StringAttr("a", "b"), GroupAttr("s", <<ChanAttr("bad")>>)>>) }

Levels == {LevelDebug, LevelInfo, LevelWarn}

\* *slog.HandlerOptions: set is FALSE when opts or opts.Level is nil; var is
\* TRUE when opts.Level is a *slog.LevelVar, FALSE when it is a slog.Level
Options ==
    { [set |-> FALSE, level |-> 0, var |-> FALSE],
      [set |-> TRUE, level |-> LevelWarn, var |-> FALSE] }

SinkErrors == {"EIO"}

(***************************************************************************)
(* colorize and the level label.                                           *)
(***************************************************************************)
\* the second case with < for <=
LevelColourBelowInfo(level) ==
    IF level <= LevelDebug THEN "lightGray"
    ELSE IF level < LevelInfo THEN "cyan"
    ELSE IF level < LevelWarn THEN "lightBlue"
    ELSE IF level < LevelError THEN "lightYellow"
    ELSE IF level <= LevelError + 1 THEN "lightRed"
    ELSE "lightMagenta"

LevelColour(level) ==
    IF level <= LevelDebug THEN "lightGray"
    ELSE IF level <= LevelInfo THEN "cyan"
    ELSE IF level < LevelWarn THEN "lightBlue"
    ELSE IF level < LevelError THEN "lightYellow"
    ELSE IF level <= LevelError + 1 THEN "lightRed"
    ELSE "lightMagenta"

LevelString(level) ==
    IF level < LevelInfo THEN [base |-> "DEBUG", off |-> level - LevelDebug]
    ELSE IF level < LevelWarn THEN [base |-> "INFO", off |-> level - LevelInfo]
    ELSE IF level < LevelError THEN [base |-> "WARN", off |-> level - LevelWarn]
    ELSE [base |-> "ERROR", off |-> level - LevelError]

Token(kind, tm, colour, ind, key, off, val) ==
    [kind |-> kind, time |-> tm, colour |-> colour, ind |-> ind, key |-> key,
     off |-> off, val |-> val]

\* "[15:04:05.000] LEVEL: message\n"
HeaderLine(r) ==
    Token("header", r.time, LevelColour(r.level), 0, LevelString(r.level).base,
          LevelString(r.level).off, <<r.msg>>)

\* prefix + colorize(ansiDarkGray, key+":\n")
GroupLine(prefix, key) == Token("group", FALSE, "darkGray", prefix, key, 0, <<>>)

\* prefix + colorize(ansiDarkGray, key+": \""+value+"\"\n")
StringLine(prefix, key, v) == Token("string", FALSE, "darkGray", prefix, key, 0, <<"\"", v, "\"">>)

\* prefix + colorize(ansiDarkGray, key+": ") + colorize(ansiDarkGray, jsonStr) + "\n"
JSONLine(prefix, key, jsonStr) == Token("json", FALSE, "darkGray", prefix, key, 0, jsonStr)

\* prefix alone: what the builder holds when the encoder fails
PrefixOnly(prefix) == Token("prefix", FALSE, "none", prefix, "", 0, <<>>)

(***************************************************************************)
(* Indentation cache.                                                      *)
(***************************************************************************)
Repeat(unit, count) == unit * count

NewCache == [i \in 1..(maxIndent + 1) |-> Repeat(2, i - 1)]

\* the value of indentCache once getIndent has run
CacheAfterGet(cache) == IF cache = <<>> THEN NewCache ELSE cache

\* past maxIndent the last entry of the table is returned
getIndentCapped(cache, indent) ==
    IF indent <= maxIndent
    THEN CacheAfterGet(cache)[indent + 1]
    ELSE CacheAfterGet(cache)[maxIndent + 1]

getIndent(cache, indent) ==
    IF indent <= maxIndent
    THEN CacheAfterGet(cache)[indent + 1]
    ELSE Repeat(2, indent)

\* the key as it is
normalizeKeyAsIs(key) == key

normalizeKey(key) == IF key = "" THEN "\"\"" ELSE key

(***************************************************************************)
(* jsonEncoder.                                                            *)
(***************************************************************************)
NewEncoder == [indent |-> 0, buf |-> <<>>]

Encodable(v) == v # "chan"

RECURSIVE TrimRight(_, _)
TrimRight(s, cut) ==
    IF Len(s) > 0 /\ s[Len(s)] = cut
    THEN TrimRight(SubSeq(s, 1, Len(s) - 1), cut)
    ELSE s

\* Reset() left out
ResetNothing(content) == content

\* strings.Builder.Reset(), bytes.Buffer.Reset()
Reset(content) == <<>>

\* the error of enc.Encode dropped: every value passes for encoded
EncodeNoError(enc, v) ==
    LET buf == <<v, "\n">>
    IN  [enc |-> [enc EXCEPT !.buf = buf], data |-> TrimRight(buf, "\n"), err |-> FALSE]

\* the encoder after Encode(v), and what Encode returned
Encode(enc, v) ==
    IF Encodable(v)
    THEN LET buf == Reset(enc.buf) \o <<v, "\n">>
         IN  [enc |-> [enc EXCEPT !.buf = buf], data |-> TrimRight(buf, "\n"), err |-> FALSE]
    ELSE [enc |-> [enc EXCEPT !.buf = Reset(enc.buf)], data |-> <<>>, err |-> TRUE]

(***************************************************************************)
(* Rendering.  A render state carries the builder written to, the encoder  *)
(* borrowed from encoderPool, the indentation cache and whether the render *)
(* has panicked.                                                           *)
(***************************************************************************)
RenderState(b, enc, cache) ==
    [b |-> b, enc |-> enc, used |-> FALSE, cache |-> cache, panic |-> FALSE]

RECURSIVE appendAttr(_, _, _)
RECURSIVE appendAttrs(_, _, _)

\* indent++ for every group, the anonymous one too
appendAttrAnonymousDeeper(st, a, indent) ==
    IF st.panic THEN st
    ELSE
    LET prefix == getIndent(st.cache, indent)
        s1 == [st EXCEPT !.cache = CacheAfterGet(st.cache)]
    IN  IF a = EmptyAttr THEN s1
        ELSE IF a.kind = "group" THEN
            IF Len(a.group) = 0 THEN s1
            ELSE IF a.key # ""
                 THEN appendAttrs([s1 EXCEPT !.b = Append(@, GroupLine(prefix, a.key))],
                                  a.group, indent + 1)
                 ELSE appendAttrs(s1, a.group, indent + 1)
        ELSE IF a.kind = "string" THEN
            [s1 EXCEPT !.b = Append(@, StringLine(prefix, normalizeKey(a.key), a.str))]
        ELSE
            LET key == normalizeKey(a.key)
                res == Encode([s1.enc EXCEPT !.indent = prefix], a.str)
                s2 == [s1 EXCEPT !.enc = res.enc, !.used = TRUE]
            IN  IF res.err
                THEN [s2 EXCEPT !.b = Append(@, PrefixOnly(prefix)), !.panic = TRUE]
                ELSE [s2 EXCEPT !.b = Append(@, JSONLine(prefix, key, TrimRight(res.data, "\n")))]

\* the test for a group without attributes left out
appendAttrEveryGroup(st, a, indent) ==
    IF st.panic THEN st
    ELSE
    LET prefix == getIndent(st.cache, indent)
        s1 == [st EXCEPT !.cache = CacheAfterGet(st.cache)]
    IN  IF a = EmptyAttr THEN s1
        ELSE IF a.kind = "group" THEN
            IF a.key # ""
            THEN appendAttrs([s1 EXCEPT !.b = Append(@, GroupLine(prefix, a.key))],
                             a.group, indent + 1)
            ELSE appendAttrs(s1, a.group, indent)
        ELSE IF a.kind = "string" THEN
            [s1 EXCEPT !.b = Append(@, StringLine(prefix, normalizeKey(a.key), a.str))]
        ELSE
            LET key == normalizeKey(a.key)
                res == Encode([s1.enc EXCEPT !.indent = prefix], a.str)
                s2 == [s1 EXCEPT !.enc = res.enc, !.used = TRUE]
            IN  IF res.err
                THEN [s2 EXCEPT !.b = Append(@, PrefixOnly(prefix)), !.panic = TRUE]
                ELSE [s2 EXCEPT !.b = Append(@, JSONLine(prefix, key, TrimRight(res.data, "\n")))]

appendAttr(st, a, indent) ==
    IF st.panic THEN st
    ELSE
    LET prefix == getIndent(st.cache, indent)
        s1 == [st EXCEPT !.cache = CacheAfterGet(st.cache)]
    IN  IF a = EmptyAttr THEN s1
        ELSE IF a.kind = "group" THEN
            IF Len(a.group) = 0 THEN s1
            ELSE IF a.key # ""
                 THEN appendAttrs([s1 EXCEPT !.b = Append(@, GroupLine(prefix, a.key))],
                                  a.group, indent + 1)
                 ELSE appendAttrs(s1, a.group, indent)
        ELSE IF a.kind = "string" THEN
            [s1 EXCEPT !.b = Append(@, StringLine(prefix, normalizeKey(a.key), a.str))]
        ELSE
            LET key == normalizeKey(a.key)
                res == Encode([s1.enc EXCEPT !.indent = prefix], a.str)
                s2 == [s1 EXCEPT !.enc = res.enc, !.used = TRUE]
            IN  IF res.err
                THEN [s2 EXCEPT !.b = Append(@, PrefixOnly(prefix)), !.panic = TRUE]
                ELSE [s2 EXCEPT !.b = Append(@, JSONLine(prefix, key, TrimRight(res.data, "\n")))]

\* for _, a := range attrs { appendAttr(b, a, indent) }
appendAttrs(st, attrs, indent) ==
    IF Len(attrs) = 0 THEN st
    ELSE appendAttrs(appendAttr(st, Head(attrs), indent), Tail(attrs), indent)

\* the names a slice holds
Slice(arrs, s) == SubSeq(arrs[s.arr], 1, s.len)

NilSlice == [arr |-> 0, len |-> 0]

SliceOf(arrs, s) == IF s.arr = 0 THEN <<>> ELSE Slice(arrs, s)

RECURSIVE appendGroups(_, _, _)
appendGroups(st, groups, indent) ==
    IF Len(groups) = 0 THEN st
    ELSE appendGroups(
             [st EXCEPT !.b = Append(@, GroupLine(getIndent(st.cache, indent), Head(groups))),
                        !.cache = CacheAfterGet(st.cache)],
             Tail(groups), indent + 1)

appendUnopenedGroups(arrs, h, st, indent) ==
    appendGroups(st, SliceOf(arrs, h.unopenedGroups), indent)

(***************************************************************************)
(* Slices: append and slices.Clone.  A slice is a window on a backing      *)
(* array; append writes in place when the array has room and allocates a   *)
(* new array, with a capacity the runtime chooses, when it has not.        *)
(***************************************************************************)
Cap(arrs, s) == IF s.arr = 0 THEN 0 ELSE Len(arrs[s.arr])

Zeroes(n) == [i \in 1..n |-> ""]

\* slices.Clone(s) left out: the slice itself
CloneNothing(arrs, s) == [arrs |-> arrs, s |-> s]

\* slices.Clone(s): a fresh array holding exactly the elements of s
Clone(arrs, s) ==
    IF s.len = 0 THEN [arrs |-> arrs, s |-> NilSlice]
    ELSE [arrs |-> Append(arrs, SliceOf(arrs, s)),
          s |-> [arr |-> Len(arrs) + 1, len |-> s.len]]

\* append(s, x)
AppendSlice(arrs, s, x) ==
    IF s.len < Cap(arrs, s)
    THEN [arrs |-> [arrs EXCEPT ![s.arr][s.len + 1] = x],
          s |-> [arr |-> s.arr, len |-> s.len + 1]]
    ELSE [arrs |-> Append(arrs, SliceOf(arrs, s) \o <<x>> \o Zeroes(MaxSpare)),
          s |-> [arr |-> Len(arrs) + 1, len |-> s.len + 1]]

(***************************************************************************)
(* sync.Pool: Get hands out any pooled object, and a new one when the pool *)
(* is empty.                                                               *)
(***************************************************************************)
PoolGet(heap, pool) == IF pool = {} THEN {Len(heap) + 1} ELSE pool

\* the heap after object i, pooled or new, took the content c
HeapPut(heap, i, c) ==
    IF i > Len(heap) THEN Append(heap, c) ELSE [heap EXCEPT ![i] = c]

EncoderOf(e) == IF e > Len(encoders) THEN NewEncoder ELSE encoders[e]

\* the encoder pool after a render that borrowed e whenever it needed one
EncodersAfter(e, st) ==
    /\ encoders' = (IF st.used THEN HeapPut(encoders, e, st.enc) ELSE encoders)
    /\ encoderPool' = (IF st.used THEN encoderPool \cup {e} ELSE encoderPool)

(***************************************************************************)
(* ConsoleHandler.                                                         *)
(***************************************************************************)
NewConsoleHandler(w, m, opts) ==
    [opts |-> [Level |-> IF opts.set
                         THEN [var |-> opts.var, level |-> opts.level]
                         ELSE [var |-> FALSE, level |-> LevelInfo]],
     indent |-> 1,
     unopenedGroups |-> NilSlice,
     preBuf |-> <<>>,
     mu |-> m,
     w |-> w,
     from |-> 0,        \* history: the handler this one was derived from
     given |-> opts]    \* history: the options the constructor was given

\* a completed call: its receiver, its argument and what it returned
Returned(op, h, attrs, name, level, ret, ok, panic) ==
    [op |-> op, h |-> h, attrs |-> attrs, name |-> name, level |-> level,
     ret |-> ret, ok |-> ok, panic |-> panic]

NoCall == Returned("none", 0, <<>>, "", 0, 0, FALSE, FALSE)

Idle == [call |-> 0, b |-> 0, pos |-> 0, err |-> "nil"]

\* more handlers than MaxOps calls can put on the heap
MaxHandlers == MaxOps + 1

\* callers are interchangeable: a new call goes to the first idle one
FirstIdle(t) ==
    /\ last = NoCall
    /\ ops < MaxOps
    /\ pc[t] = "idle"
    /\ \A u \in 1..(t - 1) : pc[u] # "idle"

Init ==
    /\ \E opts \in Options : handlers = <<NewConsoleHandler(1, 1, opts)>>
    /\ arrays = <<>>
    /\ mutex = [m \in 1..MaxHandlers |-> 0]
    /\ sink = [w \in 1..MaxHandlers |-> <<>>]
    /\ builders = <<>>
    /\ builderPool = {}
    /\ encoders = <<>>
    /\ encoderPool = {}
    /\ indentCache = <<>>
    /\ pc = [t \in Threads |-> "idle"]
    /\ cur = [t \in Threads |-> Idle]
    /\ calls = <<>>
    /\ last = NoCall
    /\ ops = 0
    /\ levelVar = LevelInfo

\* Leveler.Level(): a slog.Level is its own level, a *slog.LevelVar has the
\* level it holds now
LevelOf(leveler) == IF leveler.var THEN levelVar ELSE leveler.level

\* level > h.opts.Level.Level()
EnabledForAbove(hd, level) == level > LevelOf(hd.opts.Level)

\* level >= h.opts.Level.Level()
EnabledFor(hd, level) == level >= LevelOf(hd.opts.Level)

\* Enabled reading the level under the handler's mutex
EnabledLocked(t, h, level) ==
    /\ FirstIdle(t)
    /\ mutex[handlers[h].mu] = 0
    /\ last' = Returned("Enabled", h, <<>>, "", level, 0,
                         EnabledFor(handlers[h], level), FALSE)
    /\ ops' = ops + 1
    /\ UNCHANGED <<levelVar, handlers, arrays, mutex, sink, builders, builderPool, encoders,
                   encoderPool, indentCache, pc, cur, calls>>

Enabled(t, h, level) ==
    /\ FirstIdle(t)
    /\ last' = Returned("Enabled", h, <<>>, "", level, 0,
                         EnabledFor(handlers[h], level), FALSE)
    /\ ops' = ops + 1
    /\ UNCHANGED <<levelVar, handlers, arrays, mutex, sink, builders, builderPool, encoders,
                   encoderPool, indentCache, pc, cur, calls>>

\* the buffered prefix written ahead of the header line
HandleRenderPrefixFirst(arrs, hd, r, st) ==
    LET s1 == [st EXCEPT !.b = (st.b \o hd.preBuf) \o <<HeaderLine(r)>>]
    IN  IF Len(r.attrs) > 0
        THEN appendAttrs(appendUnopenedGroups(arrs, hd, s1, hd.indent),
                         r.attrs, hd.indent + hd.unopenedGroups.len)
        ELSE s1

\* the test r.NumAttrs() > 0 left out: the pending groups always written
HandleRenderGroupsAlways(arrs, hd, r, st) ==
    LET s1 == [st EXCEPT !.b = (st.b \o <<HeaderLine(r)>>) \o hd.preBuf]
    IN  appendAttrs(appendUnopenedGroups(arrs, hd, s1, hd.indent),
                    r.attrs, hd.indent + hd.unopenedGroups.len)

\* the record's attributes rendered at the base indentation, the pending
\* groups not counted
HandleRenderBaseIndent(arrs, hd, r, st) ==
    LET s1 == [st EXCEPT !.b = (st.b \o <<HeaderLine(r)>>) \o hd.preBuf]
    IN  IF Len(r.attrs) > 0
        THEN appendAttrs(appendUnopenedGroups(arrs, hd, s1, hd.indent),
                         r.attrs, hd.indent)
        ELSE s1

\* the text Handle assembles in its builder, starting from the reset builder
HandleRender(arrs, hd, r, st) ==
    LET s1 == [st EXCEPT !.b = (st.b \o <<HeaderLine(r)>>) \o hd.preBuf]
    IN  IF Len(r.attrs) > 0
        THEN appendAttrs(appendUnopenedGroups(arrs, hd, s1, hd.indent),
                         r.attrs, hd.indent + hd.unopenedGroups.len)
        ELSE s1

\* history of a Handle call: the writes it asked of the sink, what the sink
\* answered, what the call returned and whether it began during another call
NewCall(t, h, r, status) ==
    [h |-> h, r |-> r, status |-> status, writes |-> 0, werr |-> "none",
     ret |-> IF status = "panic" THEN "panic" ELSE "none",
     conc |-> \E u \in Threads \ {t} : pc[u] # "idle"]

\* Handle up to the point where it asks for the mutex
HandleFormat(t, h, r) ==
    /\ FirstIdle(t)
    /\ \E b \in PoolGet(builders, builderPool),
          e \in PoolGet(encoders, encoderPool) :
         LET old == IF b > Len(builders) THEN <<>> ELSE builders[b]
             st == HandleRender(arrays, handlers[h], r,
                                RenderState(Reset(old), EncoderOf(e), indentCache))
             id == Len(calls) + 1
         IN  /\ builders' = HeapPut(builders, b, st.b)
             /\ EncodersAfter(e, st)
             /\ indentCache' = st.cache
             /\ IF st.panic
                THEN /\ builderPool' = builderPool \cup {b}
                     /\ calls' = Append(calls, NewCall(t, h, r, "panic"))
                     /\ UNCHANGED <<pc, cur>>
                ELSE /\ builderPool' = builderPool \ {b}
                     /\ calls' = Append(calls, NewCall(t, h, r, "running"))
                     /\ pc' = [pc EXCEPT ![t] = "lock"]
                     /\ cur' = [cur EXCEPT ![t] = [Idle EXCEPT !.call = id, !.b = b]]
    /\ ops' = ops + 1
    /\ UNCHANGED <<levelVar, handlers, arrays, mutex, sink, last>>

\* h.mu.Lock() left out: the call goes on without waiting for the mutex
HandleLockNoWait(t) ==
    /\ last = NoCall
    /\ pc[t] = "lock"
    /\ mutex' = [mutex EXCEPT ![handlers[calls[cur[t].call].h].mu] = t]
    /\ pc' = [pc EXCEPT ![t] = "write"]
    /\ UNCHANGED <<levelVar, handlers, arrays, sink, builders, builderPool, encoders,
                   encoderPool, indentCache, cur, calls, last, ops>>

\* h.mu.Lock()
HandleLock(t) ==
    /\ last = NoCall
    /\ pc[t] = "lock"
    /\ mutex[handlers[calls[cur[t].call].h].mu] = 0
    /\ mutex' = [mutex EXCEPT ![handlers[calls[cur[t].call].h].mu] = t]
    /\ pc' = [pc EXCEPT ![t] = "write"]
    /\ UNCHANGED <<levelVar, handlers, arrays, sink, builders, builderPool, encoders,
                   encoderPool, indentCache, cur, calls, last, ops>>

Tagged(c, text) == [i \in 1..Len(text) |-> [call |-> c, tok |-> text[i]]]

\* io.WriteString(h.w, b.String()): the sink takes the first line of the
\* text, then the rest of it
SinkWrite(t) ==
    /\ last = NoCall
    /\ pc[t] \in {"write", "writing"}
    /\ LET c == cur[t].call
           text == builders[cur[t].b]
           w == handlers[calls[c].h].w
           n == IF cur[t].pos = 0 THEN 1 ELSE Len(text)
       IN  /\ sink' = [sink EXCEPT ![w] = @ \o Tagged(c, SubSeq(text, cur[t].pos + 1, n))]
           /\ cur' = [cur EXCEPT ![t].pos = n]
           /\ pc' = [pc EXCEPT ![t] = IF n = Len(text) THEN "unlock" ELSE "writing"]
           /\ calls' = [calls EXCEPT
                          ![c].writes = IF pc[t] = "write" THEN @ + 1 ELSE @,
                          ![c].werr = IF n = Len(text) THEN "nil" ELSE @]
    /\ UNCHANGED <<levelVar, handlers, arrays, mutex, builders, builderPool, encoders,
                   encoderPool, indentCache, last, ops>>

\* the sink's Write gives up with an error, having taken part of the text
SinkFail(t, err) ==
    /\ last = NoCall
    /\ pc[t] \in {"write", "writing"}
    /\ cur' = [cur EXCEPT ![t].err = err]
    /\ pc' = [pc EXCEPT ![t] = "unlock"]
    /\ calls' = [calls EXCEPT
                   ![cur[t].call].writes = IF pc[t] = "write" THEN @ + 1 ELSE @,
                   ![cur[t].call].werr = err]
    /\ UNCHANGED <<levelVar, handlers, arrays, mutex, sink, builders, builderPool, encoders,
                   encoderPool, indentCache, last, ops>>

\* h.mu.Unlock() not deferred: skipped on the error path
HandleReturnKeepsLock(t) ==
    /\ last = NoCall
    /\ pc[t] = "unlock"
    /\ mutex' = IF cur[t].err = "nil"
                THEN [mutex EXCEPT ![handlers[calls[cur[t].call].h].mu] = 0]
                ELSE mutex
    /\ builderPool' = builderPool \cup {cur[t].b}
    /\ calls' = [calls EXCEPT ![cur[t].call].status = "done",
                              ![cur[t].call].ret = cur[t].err]
    /\ pc' = [pc EXCEPT ![t] = "idle"]
    /\ cur' = [cur EXCEPT ![t] = Idle]
    /\ UNCHANGED <<levelVar, handlers, arrays, sink, builders, encoders, encoderPool,
                   indentCache, last, ops>>

\* builderPool.Put(b) not deferred: skipped on the error path
HandleReturnNoPut(t) ==
    /\ last = NoCall
    /\ pc[t] = "unlock"
    /\ mutex' = [mutex EXCEPT ![handlers[calls[cur[t].call].h].mu] = 0]
    /\ builderPool' = IF cur[t].err = "nil"
                      THEN builderPool \cup {cur[t].b}
                      ELSE builderPool
    /\ calls' = [calls EXCEPT ![cur[t].call].status = "done",
                              ![cur[t].call].ret = cur[t].err]
    /\ pc' = [pc EXCEPT ![t] = "idle"]
    /\ cur' = [cur EXCEPT ![t] = Idle]
    /\ UNCHANGED <<levelVar, handlers, arrays, sink, builders, encoders, encoderPool,
                   indentCache, last, ops>>

\* return err, running the deferred h.mu.Unlock() and builderPool.Put(b)
HandleReturn(t) ==
    /\ last = NoCall
    /\ pc[t] = "unlock"
    /\ mutex' = [mutex EXCEPT ![handlers[calls[cur[t].call].h].mu] = 0]
    /\ builderPool' = builderPool \cup {cur[t].b}
    /\ calls' = [calls EXCEPT ![cur[t].call].status = "done",
                              ![cur[t].call].ret = cur[t].err]
    /\ pc' = [pc EXCEPT ![t] = "idle"]
    /\ cur' = [cur EXCEPT ![t] = Idle]
    /\ UNCHANGED <<levelVar, handlers, arrays, sink, builders, encoders, encoderPool,
                   indentCache, last, ops>>

\* h2.indent += len(h2.unopenedGroups) left out
WithAttrsRenderSameIndent(arrs, h2, attrs, st) ==
    LET s1 == appendUnopenedGroups(arrs, h2, [st EXCEPT !.b = h2.preBuf], h2.indent)
        h3 == [h2 EXCEPT !.unopenedGroups = NilSlice]
        s2 == appendAttrs(s1, attrs, h3.indent)
    IN  [h |-> [h3 EXCEPT !.preBuf = s2.b], st |-> s2]

\* the handler WithAttrs builds from the copy h2 of its receiver
WithAttrsRender(arrs, h2, attrs, st) ==
    LET s1 == appendUnopenedGroups(arrs, h2, [st EXCEPT !.b = h2.preBuf], h2.indent)
        h3 == [h2 EXCEPT !.indent = h2.indent + h2.unopenedGroups.len,
                         !.unopenedGroups = NilSlice]
        s2 == appendAttrs(s1, attrs, h3.indent)
    IN  [h |-> [h3 EXCEPT !.preBuf = s2.b], st |-> s2]

WithAttrs(t, h, attrs) ==
    /\ FirstIdle(t)
    /\ IF Len(attrs) = 0
       THEN /\ last' = Returned("WithAttrs", h, attrs, "", 0, h, FALSE, FALSE)
            /\ UNCHANGED <<handlers, builders, builderPool, encoders, encoderPool,
                           indentCache>>
       ELSE \E b \in PoolGet(builders, builderPool),
               e \in PoolGet(encoders, encoderPool) :
              LET old == IF b > Len(builders) THEN <<>> ELSE builders[b]
                  copy == Reset(old) \o handlers[h].preBuf
                  h2 == [handlers[h] EXCEPT !.preBuf = Reset(@) \o copy, !.from = h]
                  res == WithAttrsRender(arrays, h2, attrs,
                                         RenderState(<<>>, EncoderOf(e), indentCache))
              IN  /\ builders' = HeapPut(builders, b, copy)
                  /\ builderPool' = builderPool \cup {b}
                  /\ EncodersAfter(e, res.st)
                  /\ indentCache' = res.st.cache
                  /\ IF res.st.panic
                     THEN /\ handlers' = handlers
                          /\ last' = Returned("WithAttrs", h, attrs, "", 0, 0, FALSE, TRUE)
                     ELSE /\ handlers' = Append(handlers, res.h)
                          /\ last' = Returned("WithAttrs", h, attrs, "", 0,
                                                   Len(handlers) + 1, FALSE, FALSE)
    /\ ops' = ops + 1
    /\ UNCHANGED <<levelVar, arrays, mutex, sink, pc, cur, calls>>

\* the test for the empty name left out
WithGroupAlways(t, h, name) ==
    /\ FirstIdle(t)
    /\ LET cl == Clone(arrays, handlers[h].unopenedGroups)
           ap == AppendSlice(cl.arrs, cl.s, name)
           h2 == [handlers[h] EXCEPT !.unopenedGroups = ap.s, !.from = h]
       IN  /\ arrays' = ap.arrs
           /\ handlers' = Append(handlers, h2)
    /\ last' = Returned("WithGroup", h, <<>>, name, 0, Len(handlers) + 1, FALSE, FALSE)
    /\ ops' = ops + 1
    /\ UNCHANGED <<levelVar, mutex, sink, builders, builderPool, encoders, encoderPool,
                   indentCache, pc, cur, calls>>

\* the derived handler given a mutex of its own
WithGroupOwnMutex(t, h, name) ==
    /\ FirstIdle(t)
    /\ IF name = ""
       THEN /\ last' = Returned("WithGroup", h, <<>>, name, 0, h, FALSE, FALSE)
            /\ UNCHANGED <<handlers, arrays>>
       ELSE /\ LET cl == Clone(arrays, handlers[h].unopenedGroups)
                   ap == AppendSlice(cl.arrs, cl.s, name)
                   h2 == [handlers[h] EXCEPT !.unopenedGroups = ap.s, !.from = h,
                                             !.mu = Len(handlers) + 1]
               IN  /\ arrays' = ap.arrs
                   /\ handlers' = Append(handlers, h2)
            /\ last' = Returned("WithGroup", h, <<>>, name, 0, Len(handlers) + 1,
                                 FALSE, FALSE)
    /\ ops' = ops + 1
    /\ UNCHANGED <<levelVar, mutex, sink, builders, builderPool, encoders, encoderPool,
                   indentCache, pc, cur, calls>>

WithGroup(t, h, name) ==
    /\ FirstIdle(t)
    /\ IF name = ""
       THEN /\ last' = Returned("WithGroup", h, <<>>, name, 0, h, FALSE, FALSE)
            /\ UNCHANGED <<handlers, arrays>>
       ELSE /\ LET cl == Clone(arrays, handlers[h].unopenedGroups)
                   ap == AppendSlice(cl.arrs, cl.s, name)
                   h2 == [handlers[h] EXCEPT !.unopenedGroups = ap.s, !.from = h]
               IN  /\ arrays' = ap.arrs
                   /\ handlers' = Append(handlers, h2)
            /\ last' = Returned("WithGroup", h, <<>>, name, 0, Len(handlers) + 1,
                                 FALSE, FALSE)
    /\ ops' = ops + 1
    /\ UNCHANGED <<levelVar, mutex, sink, builders, builderPool, encoders, encoderPool,
                   indentCache, pc, cur, calls>>

\* the caller takes the value returned to it and goes on
Resume ==
    /\ last # NoCall
    /\ last' = NoCall
    /\ UNCHANGED <<levelVar, handlers, arrays, mutex, sink, builders, builderPool, encoders,
                   encoderPool, indentCache, pc, cur, calls, ops>>

Next ==
    \/ \E t \in Threads, h \in DOMAIN handlers, l \in Levels : Enabled(t, h, l)
    \/ \E t \in Threads, h \in DOMAIN handlers, r \in Records : HandleFormat(t, h, r)
    \/ \E t \in Threads : HandleLock(t)
    \/ \E t \in Threads : SinkWrite(t)
    \/ \E t \in Threads, err \in SinkErrors : SinkFail(t, err)
    \/ \E t \in Threads : HandleReturn(t)
    \/ \E t \in Threads, h \in DOMAIN handlers, attrs \in AttrLists : WithAttrs(t, h, attrs)
    \/ \E t \in Threads, h \in DOMAIN handlers, name \in Names : WithGroup(t, h, name)
    \/ Resume

Spec == Init /\ [][Next]_vars

(***************************************************************************)
(* What the claims speak of.                                               *)
(***************************************************************************)
\* the pending group names of handler h
Groups(h) == SliceOf(arrays, handlers[h].unopenedGroups)

\* the root handler h was derived from
RECURSIVE Root(_)
Root(h) == IF handlers[h].from = 0 THEN h ELSE Root(handlers[h].from)

\* the tokens call c has put into its sink, in the order they lie there
Written(c) ==
    LET out == sink[handlers[calls[c].h].w]
        OfCall(e) == e.call = c
        mine == SelectSeq(out, OfCall)
    IN  [i \in 1..Len(mine) |-> mine[i].tok]

\* an attribute list holds, at some depth, a value the encoder cannot serialise
RECURSIVE HasBad(_)
HasBad(attrs) ==
    \E i \in 1..Len(attrs) :
        \/ attrs[i].kind = "other" /\ attrs[i].str = "chan"
        \/ attrs[i].kind = "group" /\ HasBad(attrs[i].group)

\* the lines of an attribute at nesting level n: a named group with children
\* gives a header line and its children one level deeper, an anonymous group
\* gives its children at the same level, an empty group and the empty
\* attribute give nothing
RECURSIVE LinesOfAttrs(_, _)
LinesOfAttrs(attrs, n) ==
    IF attrs = <<>> THEN <<>>
    ELSE LET a == Head(attrs)
             key == IF a.key = "" THEN "\"\"" ELSE a.key
             lines ==
                 IF a = EmptyAttr THEN <<>>
                 ELSE IF a.kind = "group"
                 THEN IF a.group = <<>> THEN <<>>
                      ELSE IF a.key = "" THEN LinesOfAttrs(a.group, n)
                      ELSE <<Token("group", FALSE, "darkGray", 2 * n, a.key, 0, <<>>)>>
                           \o LinesOfAttrs(a.group, n + 1)
                 ELSE IF a.kind = "string"
                 THEN <<Token("string", FALSE, "darkGray", 2 * n, key, 0,
                              <<"\"", a.str, "\"">>)>>
                 ELSE <<Token("json", FALSE, "darkGray", 2 * n, key, 0, <<a.str>>)>>
         IN  lines \o LinesOfAttrs(Tail(attrs), n)

\* the header lines of the pending groups g1..gk of a handler of base
\* indentation i: gj at level i+j-1
PendingHeaders(names, i) ==
    [j \in 1..Len(names) |->
        Token("group", FALSE, "darkGray", 2 * (i + j - 1), names[j], 0, <<>>)]

\* header, prefix, every pending group header, attributes
TextWithGroups(h, r) ==
    <<HeaderLine(r)>> \o handlers[h].preBuf
        \o PendingHeaders(Groups(h), handlers[h].indent)
        \o LinesOfAttrs(r.attrs, handlers[h].indent + Len(Groups(h)))

\* the same, the pending group headers being there only for a record that
\* carries an attribute
RecordText(h, r) ==
    IF Len(r.attrs) > 0 THEN TextWithGroups(h, r)
    ELSE <<HeaderLine(r)>> \o handlers[h].preBuf

Done == {c \in DOMAIN calls : calls[c].status = "done"}
Succeeded == {c \in Done : calls[c].werr = "nil"}
InHandle == {t \in Threads : pc[t] # "idle"}
Holding == {t \in Threads : pc[t] \in {"write", "writing", "unlock"}}
MutexOf(t) == handlers[calls[cur[t].call].h].mu

\* a step of a Handle call, as against a step of Enabled, WithAttrs, WithGroup
HandleStep == last = NoCall /\ last' = NoCall

(***************************************************************************)
(* C1: whatever the interleaving of concurrent Handle calls on handlers    *)
(* sharing a sink, the tokens of one call lie next to each other in the    *)
(* sink, none of another call between them, and a call whose write         *)
(* succeeded has its whole record there.                                   *)
(***************************************************************************)
Contiguous(out) ==
    \A i, k \in DOMAIN out :
        (i < k /\ out[i].call = out[k].call) =>
            \A j \in i..k : out[j].call = out[i].call

C1_NoInterleaving ==
    /\ \A w \in DOMAIN sink : Contiguous(sink[w])
    /\ \A c \in Succeeded : Written(c) = RecordText(calls[c].h, calls[c].r)

\* two calls that ran at the same time have each left a record of several
\* lines in the one sink
C1_Witness ==
    \E c, d \in Succeeded :
        /\ c # d
        /\ calls[d].conc
        /\ handlers[calls[c].h].w = handlers[calls[d].h].w
        /\ Len(Written(c)) > 1
        /\ Len(Written(d)) > 1

(***************************************************************************)
(* C2: a Handle call that does not abort asks the sink for exactly one     *)
(* write, holds the mutex while the sink takes it, has its text finished   *)
(* before it asks for the mutex, and the text is the header line, the      *)
(* buffered prefix, the pending group headers and the record's attributes, *)
(* in this order.                                                          *)
(***************************************************************************)
OneWriteUnderMutex ==
    /\ \A c \in Done : calls[c].writes = 1
    /\ \A c \in DOMAIN calls : calls[c].writes <= 1
    /\ \A t \in Holding : mutex[MutexOf(t)] = t
    /\ \A t \in Threads :
           (pc[t] = "writing" \/ (pc[t] = "unlock" /\ cur[t].pos > 0)) =>
               mutex[MutexOf(t)] = t

\* as claimed: the pending group headers are part of every record
C2_Original ==
    /\ OneWriteUnderMutex
    /\ \A t \in InHandle :
           builders[cur[t].b] = TextWithGroups(calls[cur[t].call].h, calls[cur[t].call].r)
    /\ \A c \in Succeeded : Written(c) = TextWithGroups(calls[c].h, calls[c].r)

\* as amended: the pending group headers are written only for a record that
\* carries at least one attribute
C2_OneWrite ==
    /\ OneWriteUnderMutex
    /\ \A t \in InHandle :
           builders[cur[t].b] = RecordText(calls[cur[t].call].h, calls[cur[t].call].r)
    /\ \A c \in Succeeded : Written(c) = RecordText(calls[c].h, calls[c].r)

\* a record with attributes has been written through a handler that has a
\* buffered prefix and a pending group
C2_Witness ==
    \E c \in Succeeded :
        /\ handlers[calls[c].h].preBuf # <<>>
        /\ Groups(calls[c].h) # <<>>
        /\ Len(calls[c].r.attrs) > 0
        /\ Len(Written(c)) >= 4

(***************************************************************************)
(* C3: a Handle call returns what the sink's write returned, the error     *)
(* when it failed and no error when it succeeded, asks for no second       *)
(* write, holds the mutex no longer once it has returned, and changes no   *)
(* handler.                                                                *)
(***************************************************************************)
C3_Inv ==
    /\ \A c \in Done : calls[c].ret = calls[c].werr /\ calls[c].writes = 1
    /\ \A m \in DOMAIN mutex : mutex[m] # 0 => mutex[m] \in Holding /\ MutexOf(mutex[m]) = m

C3_WriteError ==
    /\ []C3_Inv
    /\ [][HandleStep => handlers' = handlers /\ arrays' = arrays]_vars

\* a write has failed, and a later call on a handler derived from the first
\* call's handler has taken the mutex and written its record
C3_Witness ==
    \E c, d \in Done :
        /\ c < d
        /\ calls[c].ret \in SinkErrors
        /\ handlers[calls[d].h].from = calls[c].h
        /\ d \in Succeeded
        /\ Written(d) = RecordText(calls[d].h, calls[d].r)

(***************************************************************************)
(* C4: a Handle call whose record holds, at any depth, a value the encoder *)
(* cannot serialise ends in a panic, has asked the sink for no write and   *)
(* has put nothing into the sink, and holds no mutex; a WithAttrs call     *)
(* given such a list ends in a panic, returns no handler and changes no    *)
(* handler.                                                                *)
(***************************************************************************)
C4_Inv ==
    /\ \A c \in DOMAIN calls :
           HasBad(calls[c].r.attrs) =>
               /\ calls[c].status = "panic"
               /\ calls[c].ret = "panic"
               /\ calls[c].writes = 0
               /\ Written(c) = <<>>
    /\ \A t \in InHandle : calls[cur[t].call].status = "running"
    /\ \A m \in DOMAIN mutex : mutex[m] # 0 => mutex[m] \in Holding
    /\ (last.op = "WithAttrs" /\ HasBad(last.attrs)) => (last.panic /\ last.ret = 0)

C4_PanicOnUnencodable ==
    /\ []C4_Inv
    /\ [][(last'.op = "WithAttrs" /\ last'.panic) =>
              (handlers' = handlers /\ arrays' = arrays)]_vars

\* a Handle call has panicked on a record whose bad value lies inside a
\* group, behind an attribute that rendered, and a WithAttrs call has then
\* panicked on a derived handler
C4_Witness ==
    /\ \E c \in DOMAIN calls : calls[c].status = "panic" /\ Len(calls[c].r.attrs) > 1
    /\ last.op = "WithAttrs"
    /\ last.panic
    /\ last.h > 1

(***************************************************************************)
(* C5: WithAttrs with an empty list and WithGroup with an empty name       *)
(* return the handler they were called on and change nothing; WithGroup    *)
(* with a name returns another handler than the one it was called on.      *)
(***************************************************************************)
IdentityCall(l) ==
    \/ l.op = "WithAttrs" /\ l.attrs = <<>>
    \/ l.op = "WithGroup" /\ l.name = ""

C5_Inv ==
    /\ IdentityCall(last) => (last.ret = last.h /\ ~last.panic)
    /\ (last.op = "WithGroup" /\ last.name # "") =>
           (last.ret # last.h /\ last.ret \in DOMAIN handlers)

C5_IdentityCalls ==
    /\ []C5_Inv
    /\ [][IdentityCall(last') =>
              UNCHANGED <<handlers, arrays, mutex, sink, builders, builderPool,
                          encoders, encoderPool, indentCache>>]_vars

\* WithGroup("") has returned on a handler that has a buffered prefix and a
\* pending group
C5_Witness ==
    /\ last.op = "WithGroup"
    /\ last.name = ""
    /\ handlers[last.h].preBuf # <<>>
    /\ Groups(last.h) # <<>>

(***************************************************************************)
(* C6: WithGroup with a name returns a new handler whose pending list is   *)
(* the parent's followed by the name and whose indentation and prefix are  *)
(* the parent's; no later call changes the pending list of a handler that  *)
(* exists.                                                                 *)
(***************************************************************************)
C6_Inv ==
    (last.op = "WithGroup" /\ last.name # "") =>
        /\ last.ret = Len(handlers)
        /\ Groups(last.ret) = Groups(last.h) \o <<last.name>>
        /\ handlers[last.ret].indent = handlers[last.h].indent
        /\ handlers[last.ret].preBuf = handlers[last.h].preBuf

C6_GroupListCopied ==
    /\ []C6_Inv
    /\ [][\A h \in DOMAIN handlers :
              SliceOf(arrays', handlers'[h].unopenedGroups) = Groups(h)]_vars

\* two handlers derived with different names from one parent that has a
\* pending group itself
C6_Witness ==
    /\ last.op = "WithGroup"
    /\ last.name # ""
    /\ Groups(last.h) # <<>>
    /\ \E s \in DOMAIN handlers :
           /\ s # last.ret
           /\ handlers[s].from = last.h
           /\ Groups(s) # Groups(last.ret)
           /\ Len(Groups(s)) = Len(Groups(last.ret))

(***************************************************************************)
(* C7: WithAttrs with a list that is not empty, on a parent of base        *)
(* indentation i, pending groups g1..gk and prefix P, returns a new        *)
(* handler of base indentation i+k, no pending group, and prefix P, then   *)
(* the header of each gj at level i+j-1, then the attributes at level i+k; *)
(* the parent is unchanged.                                                *)
(***************************************************************************)
C7_Inv ==
    (last.op = "WithAttrs" /\ last.attrs # <<>> /\ ~last.panic) =>
        LET p == handlers[last.h]
            n == handlers[last.ret]
            k == Len(Groups(last.h))
        IN  /\ last.ret = Len(handlers)
            /\ last.ret # last.h
            /\ n.indent = p.indent + k
            /\ Groups(last.ret) = <<>>
            /\ n.preBuf = (p.preBuf \o PendingHeaders(Groups(last.h), p.indent))
                              \o LinesOfAttrs(last.attrs, p.indent + k)

C7_WithAttrsPrefix ==
    /\ []C7_Inv
    /\ [][last'.op = "WithAttrs" =>
              \A h \in DOMAIN handlers :
                  /\ handlers'[h] = handlers[h]
                  /\ SliceOf(arrays', handlers'[h].unopenedGroups) = Groups(h)]_vars

\* WithAttrs has returned on a parent that has a prefix and a pending group
C7_Witness ==
    /\ last.op = "WithAttrs"
    /\ last.attrs # <<>>
    /\ ~last.panic
    /\ handlers[last.h].preBuf # <<>>
    /\ Groups(last.h) # <<>>
    /\ Len(handlers[last.ret].preBuf) >= Len(handlers[last.h].preBuf) + 2

(***************************************************************************)
(* C8: no step changes a field, or the pending list, of a handler that     *)
(* exists, and two Handle calls with the same record on the same handler   *)
(* write the same text.                                                    *)
(***************************************************************************)
C8_SameText ==
    \A c, d \in Succeeded :
        (calls[c].h = calls[d].h /\ calls[c].r = calls[d].r) => Written(c) = Written(d)

C8_HandlersImmutable ==
    /\ []C8_SameText
    /\ [][\A h \in DOMAIN handlers :
              /\ h \in DOMAIN handlers'
              /\ handlers'[h] = handlers[h]
              /\ SliceOf(arrays', handlers'[h].unopenedGroups) = Groups(h)]_vars

\* one record written twice through a handler from which, meanwhile or
\* before, another handler was derived
C8_Witness ==
    \E c, d \in Succeeded :
        /\ c # d
        /\ calls[c].h = calls[d].h
        /\ calls[c].r = calls[d].r
        /\ Len(Written(c)) > 1
        /\ \E h \in DOMAIN handlers : handlers[h].from = calls[c].h

(***************************************************************************)
(* C9: every handler has the mutex and the sink of the root it was derived *)
(* from, and no step changes the indentation or the prefix of a handler    *)
(* that exists.                                                            *)
(***************************************************************************)
C9_Inv ==
    \A h \in DOMAIN handlers :
        /\ handlers[h].mu = handlers[Root(h)].mu
        /\ handlers[h].w = handlers[Root(h)].w

C9_SharedMutexAndSink ==
    /\ []C9_Inv
    /\ [][\A h \in DOMAIN handlers :
              /\ handlers'[h].indent = handlers[h].indent
              /\ handlers'[h].preBuf = handlers[h].preBuf]_vars

\* a handler three derivations from the root, of another indentation and
\* another prefix than the root
C9_Witness ==
    \E h \in DOMAIN handlers :
        /\ handlers[h].from # 0
        /\ handlers[handlers[h].from].from # 0
        /\ handlers[handlers[handlers[h].from].from].from # 0
        /\ handlers[h].indent # handlers[Root(h)].indent
        /\ handlers[h].preBuf # handlers[Root(h)].preBuf

(***************************************************************************)
(* C10: Enabled(level) is true exactly when level is at least the minimum  *)
(* the constructor was given, Info when it was given none; what is enabled *)
(* at a level is enabled at every higher level; Enabled changes no state   *)
(* and takes no lock.                                                      *)
(***************************************************************************)
Threshold(h) ==
    IF handlers[h].given.set THEN handlers[h].given.level ELSE LevelInfo

C10_Inv ==
    /\ last.op = "Enabled" => (last.ok <=> last.level >= Threshold(last.h))
    /\ \A h \in DOMAIN handlers, l1, l2 \in Levels :
           (EnabledFor(handlers[h], l1) /\ l2 >= l1) => EnabledFor(handlers[h], l2)

C10_EnabledThreshold ==
    /\ []C10_Inv
    /\ [][last'.op = "Enabled" =>
              UNCHANGED <<handlers, arrays, mutex, sink, builders, builderPool,
                          encoders, encoderPool, indentCache, pc, cur, calls>>]_vars

\* Enabled has answered no, on a derived handler, while another caller held
\* the mutex in the middle of its write
C10_Witness ==
    /\ last.op = "Enabled"
    /\ ~last.ok
    /\ last.h > 1
    /\ \E t \in Threads : pc[t] = "writing" /\ mutex[MutexOf(t)] = t

(***************************************************************************)
(* Deep nesting: getIndent called on its own, and a chain of handlers each *)
(* derived from the one before by WithGroup, the deepest of which handles  *)
(* records.  The levels go past maxIndent, where getIndent leaves its      *)
(* table.                                                                  *)
(***************************************************************************)
MaxGroups == 35       \* names opened one inside the other
MaxLevel == 36        \* levels getIndent is asked for

DeepRecords ==
    { NewRecord(FALSE, LevelInfo, "indent test", <<StringAttr("key", "value")>>),
      NewRecord(FALSE, LevelWarn, "m3",
                <<GroupAttr("s", <<IntAttr("", "7")>>), StringAttr("", "v")>>) }

DeepInit ==
    /\ handlers = <<NewConsoleHandler(1, 1, [set |-> FALSE, level |-> 0, var |-> FALSE])>>
    /\ arrays = <<>>
    /\ mutex = [m \in 1..MaxHandlers |-> 0]
    /\ sink = [w \in 1..MaxHandlers |-> <<>>]
    /\ builders = <<>>
    /\ builderPool = {}
    /\ encoders = <<>>
    /\ encoderPool = {}
    /\ indentCache = <<>>
    /\ pc = [t \in Threads |-> "idle"]
    /\ cur = [t \in Threads |-> Idle]
    /\ calls = <<>>
    /\ last = NoCall
    /\ ops = 0
    /\ levelVar = LevelInfo

\* getIndent(n), called before any handler is derived
GetIndentCall(n) ==
    /\ last = NoCall
    /\ ops < MaxOps
    /\ calls = <<>>
    /\ Len(handlers) = 1
    /\ last' = Returned("getIndent", 0, <<>>, "", n, getIndent(indentCache, n),
                         indentCache = <<>>, FALSE)
    /\ indentCache' = CacheAfterGet(indentCache)
    /\ ops' = ops + 1
    /\ UNCHANGED <<levelVar, handlers, arrays, mutex, sink, builders, builderPool, encoders,
                   encoderPool, pc, cur, calls>>

\* h2 = h2.WithGroup(name) on the handler derived last
NestGroup(name) ==
    /\ last = NoCall
    /\ calls = <<>>
    /\ Len(handlers) <= MaxGroups
    /\ LET h == Len(handlers)
           cl == Clone(arrays, handlers[h].unopenedGroups)
           ap == AppendSlice(cl.arrs, cl.s, name)
           h2 == [handlers[h] EXCEPT !.unopenedGroups = ap.s, !.from = h]
       IN  /\ arrays' = ap.arrs
           /\ handlers' = Append(handlers, h2)
    /\ UNCHANGED <<levelVar, mutex, sink, builders, builderPool, encoders, encoderPool,
                   indentCache, pc, cur, calls, last, ops>>

DeepNext ==
    \/ \E n \in 0..MaxLevel : GetIndentCall(n)
    \/ Resume
    \/ NestGroup("g")
    \/ \E t \in Threads, r \in DeepRecords : HandleFormat(t, Len(handlers), r)
    \/ \E t \in Threads : HandleLock(t)
    \/ \E t \in Threads : SinkWrite(t)
    \/ \E t \in Threads : HandleReturn(t)

DeepSpec == DeepInit /\ [][DeepNext]_vars

(***************************************************************************)
(* C11: getIndent(n) is 2n spaces for every level n from 0 on, within      *)
(* the table (n <= maxIndent) and past it; every group header line and     *)
(* attribute line, in a sink, a builder or a buffered prefix, has an even  *)
(* number of leading spaces, and every text written is the record's text   *)
(* with each line at twice its level.                                      *)
(***************************************************************************)
EvenIndents(text) ==
    \A i \in DOMAIN text : text[i].kind # "header" => text[i].ind % 2 = 0

C11_IndentIsTwiceLevel ==
    /\ last.op = "getIndent" => last.ret = 2 * last.level
    /\ \A w \in DOMAIN sink : \A i \in DOMAIN sink[w] :
           sink[w][i].tok.kind # "header" => sink[w][i].tok.ind % 2 = 0
    /\ \A b \in DOMAIN builders : EvenIndents(builders[b])
    /\ \A h \in DOMAIN handlers : EvenIndents(handlers[h].preBuf)
    /\ \A c \in Succeeded : Written(c) = RecordText(calls[c].h, calls[c].r)

\* getIndent has answered for a level past the table, from a table that was
\* there already
C11_Witness ==
    /\ last.op = "getIndent"
    /\ last.level > maxIndent
    /\ ~last.ok
    /\ indentCache # <<>>

(***************************************************************************)
(* C12 as stated: through a handler got from a new one by k WithGroup      *)
(* calls, 0 <= k <= 35, the line of the single string attribute of a       *)
(* record has 2k leading spaces.                                           *)
(***************************************************************************)
OneString(r) == Len(r.attrs) = 1 /\ r.attrs[1].kind = "string"

AttrLine(c) == Written(c)[Len(Written(c))]

C12_Original ==
    \A c \in Succeeded :
        OneString(calls[c].r) => AttrLine(c).ind = 2 * Len(Groups(calls[c].h))

(***************************************************************************)
(* C12 amended: through a handler got from a new one by k WithGroup calls, *)
(* 0 <= k <= 35, the line of the single string attribute of a record has   *)
(* 2(k+1) leading spaces, the base indentation of a new handler being 1;   *)
(* with 35 groups that is 72, under an innermost group header at 70.       *)
(***************************************************************************)
C12_DeepIndent ==
    \A c \in Succeeded :
        OneString(calls[c].r) =>
            LET k == Len(Groups(calls[c].h))
            IN  /\ handlers[calls[c].h].indent = 1
                /\ handlers[calls[c].h].preBuf = <<>>
                /\ Len(Written(c)) = k + 2
                /\ AttrLine(c).kind = "string"
                /\ AttrLine(c).ind = 2 * (k + 1)
                /\ \A j \in 1..k : /\ Written(c)[j + 1].kind = "group"
                                   /\ Written(c)[j + 1].ind = 2 * j

\* the record with one string attribute has been written through the
\* handler under 35 groups
C12_Witness ==
    \E c \in Succeeded :
        /\ OneString(calls[c].r)
        /\ Len(Groups(calls[c].h)) = 35
        /\ AttrLine(c).ind = 72
        /\ Written(c)[36].ind = 70

(***************************************************************************)
(* Groups without attributes: the handler's operations on attribute lists  *)
(* and records that hold a group "e" with no attribute in it, alone, at    *)
(* the top, and inside another group.                                      *)
(***************************************************************************)
\* slog.Group("e"), or a value that a.Value.Resolve() turns into a group
\* without attributes; the latter is how one comes to lie in a record or
\* inside another group
EmptyGroup == GroupAttr("e", <<>>)

GroupAttrLists ==
    { <<EmptyGroup>>,
      <<StringAttr("k", "v"), GroupAttr("s", <<EmptyGroup, IntAttr("n", "7")>>)>> }

GroupRecords ==
    { NewRecord(FALSE, LevelInfo, "m0", <<>>),
      NewRecord(FALSE, LevelInfo, "m4", <<EmptyGroup>>),
      NewRecord(FALSE, LevelWarn, "m5",
                <<GroupAttr("s", <<StringAttr("a", "b"), GroupAttr("", <<EmptyGroup>>)>>)>>) }

GroupNext ==
    \/ \E t \in Threads, h \in DOMAIN handlers, r \in GroupRecords : HandleFormat(t, h, r)
    \/ \E t \in Threads : HandleLock(t)
    \/ \E t \in Threads : SinkWrite(t)
    \/ \E t \in Threads : HandleReturn(t)
    \/ \E t \in Threads, h \in DOMAIN handlers, attrs \in GroupAttrLists :
           WithAttrs(t, h, attrs)
    \/ \E t \in Threads, h \in DOMAIN handlers : WithGroup(t, h, "g")
    \/ Resume

GroupSpec == DeepInit /\ [][GroupNext]_vars

(***************************************************************************)
(* C13: a group attribute without attributes leaves no line: no line of a  *)
(* sink, a builder or a buffered prefix bears its name, whether the group  *)
(* came in a record, in the list given to WithAttrs, or inside another     *)
(* group; WithAttrs given nothing but such a group adds to the prefix only *)
(* the headers of the pending groups.                                      *)
(***************************************************************************)
NoLineOf(text, name) == \A i \in DOMAIN text : text[i].key # name

C13_EmptyGroupSilent ==
    /\ \A w \in DOMAIN sink : \A i \in DOMAIN sink[w] : sink[w][i].tok.key # "e"
    /\ \A b \in DOMAIN builders : NoLineOf(builders[b], "e")
    /\ \A h \in DOMAIN handlers : NoLineOf(handlers[h].preBuf, "e")
    /\ (last.op = "WithAttrs" /\ last.attrs = <<EmptyGroup>>) =>
           handlers[last.ret].preBuf =
               handlers[last.h].preBuf
                   \o PendingHeaders(Groups(last.h), handlers[last.h].indent)

\* a record holding the empty group inside another group has been written
\* through a handler whose prefix was rendered from a list holding it too
C13_Witness ==
    \E c \in Succeeded :
        /\ Len(calls[c].r.attrs) > 0
        /\ calls[c].r.attrs[1].key = "s"
        /\ Len(Written(c)) > 3
        /\ handlers[calls[c].h].preBuf # <<>>

(***************************************************************************)
(* C14: in every text written by Handle each group header line is followed *)
(* by a line nested beneath it; as every header then has a deeper line     *)
(* after it, none is left with nothing under it.                           *)
(***************************************************************************)
NoDanglingHeader(text) ==
    \A i \in DOMAIN text :
        text[i].kind = "group" =>
            /\ i < Len(text)
            /\ text[i + 1].kind # "header"
            /\ text[i + 1].ind > text[i].ind

C14_NoDanglingHeader ==
    \A c \in Succeeded : NoDanglingHeader(Written(c))

(***************************************************************************)
(* C15: every attribute line, of a string and of any other value, bears a  *)
(* key that is not empty, and an attribute whose key is empty is written   *)
(* with the two characters "" for its key: a text written holds as many    *)
(* lines with that key as its record holds rendered attributes with an     *)
(* empty key.                                                              *)
(***************************************************************************)
AttrLineHasKey(tok) == tok.kind \in {"string", "json"} => tok.key # ""

RECURSIVE EmptyKeys(_)
EmptyKeys(attrs) ==
    IF attrs = <<>> THEN 0
    ELSE LET a == Head(attrs)
             n == IF a = EmptyAttr THEN 0
                  ELSE IF a.kind = "group" THEN EmptyKeys(a.group)
                  ELSE IF a.key = "" THEN 1 ELSE 0
         IN  n + EmptyKeys(Tail(attrs))

QuotedKeys(text) == Cardinality({i \in DOMAIN text : text[i].key = "\"\""})

C15_EmptyKeyQuoted ==
    /\ \A w \in DOMAIN sink : \A i \in DOMAIN sink[w] : AttrLineHasKey(sink[w][i].tok)
    /\ \A b \in DOMAIN builders : \A i \in DOMAIN builders[b] :
           AttrLineHasKey(builders[b][i])
    /\ \A c \in Succeeded : QuotedKeys(Written(c)) = EmptyKeys(calls[c].r.attrs)

\* a record with an empty-keyed string and an empty-keyed number, the
\* latter inside a group, has been written
C15_Witness ==
    \E c \in Succeeded :
        /\ EmptyKeys(calls[c].r.attrs) = 2
        /\ \E i, j \in DOMAIN Written(c) :
               /\ Written(c)[i].kind = "json" /\ Written(c)[i].key = "\"\""
               /\ Written(c)[j].kind = "string" /\ Written(c)[j].key = "\"\""

(***************************************************************************)
(* Levels: records of every level from below Debug to above Error+1, with  *)
(* no attribute, handled by a new handler.                                 *)
(***************************************************************************)
LevelMargin == 3      \* levels tried below Debug and above Error
MaxLevelCalls == 2    \* records handled in one behaviour

LevelRecords ==
    { NewRecord(FALSE, l, "m", <<>>) :
          l \in (LevelDebug - LevelMargin)..(LevelError + LevelMargin) }

LevelNext ==
    \/ \E t \in Threads, r \in LevelRecords :
           Len(calls) < MaxLevelCalls /\ HandleFormat(t, 1, r)
    \/ \E t \in Threads : HandleLock(t)
    \/ \E t \in Threads : SinkWrite(t)
    \/ \E t \in Threads : HandleReturn(t)

LevelSpec == DeepInit /\ [][LevelNext]_vars

(***************************************************************************)
(* C16: the colour of the level label is light gray for level <= Debug,    *)
(* cyan for Debug < level <= Info, light blue for Info < level < Warn,     *)
(* light yellow for Warn <= level < Error, light red for Error <= level    *)
(* <= Error+1 and light magenta for level > Error+1; the label has the     *)
(* colour of a band exactly when the level lies in it, so every level lies *)
(* in one band and no more.                                                *)
(***************************************************************************)
Bands(l) ==
    << l <= LevelDebug,
       LevelDebug < l /\ l <= LevelInfo,
       LevelInfo < l /\ l < LevelWarn,
       LevelWarn <= l /\ l < LevelError,
       LevelError <= l /\ l <= LevelError + 1,
       l > LevelError + 1 >>

BandColours ==
    <<"lightGray", "cyan", "lightBlue", "lightYellow", "lightRed", "lightMagenta">>

C16_LevelColourBands ==
    \A c \in Succeeded :
        /\ Written(c)[1].kind = "header"
        /\ \A i \in DOMAIN BandColours :
               Bands(calls[c].r.level)[i] <=> (Written(c)[1].colour = BandColours[i])

\* the header lines of a record at Error+1 and of one at Error+2 have been
\* written
C16_Witness ==
    \E c, d \in Succeeded :
        /\ calls[c].r.level = LevelError + 1
        /\ Written(c)[1].colour = "lightRed"
        /\ calls[d].r.level = LevelError + 2
        /\ Written(d)[1].colour = "lightMagenta"

(***************************************************************************)
(* C17: while a caller holds the mutex, whether or not its write has       *)
(* begun or ended, Enabled, WithAttrs and WithGroup can be called and      *)
(* return, on every handler, and they leave every mutex as it is; a Handle *)
(* call waiting for that mutex cannot take it, and a line goes into a sink *)
(* only from the caller that holds the mutex, no other caller of that      *)
(* mutex being past its Lock.                                              *)
(***************************************************************************)
CanCall ==
    /\ last = NoCall
    /\ ops < MaxOps
    /\ \E t \in Threads : pc[t] = "idle"

C17_Inv ==
    /\ CanCall =>
           \A h \in DOMAIN handlers :
               /\ ENABLED (\E t \in Threads, l \in Levels : Enabled(t, h, l))
               /\ ENABLED (\E t \in Threads : WithAttrs(t, h, <<StringAttr("k", "v")>>))
               /\ ENABLED (\E t \in Threads : WithGroup(t, h, "g"))
    /\ \A t, u \in Threads :
           (t # u /\ t \in Holding /\ pc[u] = "lock" /\ MutexOf(u) = MutexOf(t)) =>
               ~ENABLED HandleLock(u)

C17_NoLockOutsideHandle ==
    /\ []C17_Inv
    /\ [][last' # NoCall => mutex' = mutex]_vars
    /\ [][\A t \in Threads :
              cur'[t].pos # cur[t].pos =>
                  /\ mutex[MutexOf(t)] = t
                  /\ \A u \in Threads \ {t} :
                         (pc[u] # "idle" /\ MutexOf(u) = MutexOf(t)) => pc[u] = "lock"]_vars

\* WithAttrs has returned a new handler, with the mutex of the handler whose
\* Handle call is in the middle of its write
C17_Witness ==
    /\ last.op = "WithAttrs"
    /\ last.ret # last.h
    /\ ~last.panic
    /\ \E t \in Threads :
           /\ pc[t] = "writing"
           /\ mutex[MutexOf(t)] = t
           /\ handlers[last.ret].mu = MutexOf(t)

(***************************************************************************)
(* C18: every builder is either in builderPool or held by one Handle call  *)
(* that has not returned, never both and never by two calls; a call that   *)
(* has returned or panicked holds none; every encoder is back in           *)
(* encoderPool once the render that borrowed it is over; and the step by   *)
(* which a Handle call leaves, with nil or with the sink's error, puts its *)
(* builder, which was not in the pool, into the pool.                      *)
(***************************************************************************)
HeldBuilders == {cur[t].b : t \in InHandle}

C18_Inv ==
    /\ \A t, u \in InHandle : t # u => cur[t].b # cur[u].b
    /\ \A t \in InHandle : cur[t].b \in DOMAIN builders
    /\ \A t \in Threads \ InHandle : cur[t].b = 0
    /\ HeldBuilders \cap builderPool = {}
    /\ HeldBuilders \cup builderPool = DOMAIN builders
    /\ encoderPool = DOMAIN encoders

C18_PooledObjectsReturned ==
    /\ []C18_Inv
    /\ [][\A t \in Threads :
              (pc[t] # "idle" /\ pc'[t] = "idle") =>
                  /\ cur[t].b \notin builderPool
                  /\ cur[t].b \in builderPool']_vars

\* one Handle call has panicked, one has returned the sink's error, both
\* pools hold what they borrowed, and a third call holds a builder
C18_Witness ==
    /\ \E c \in DOMAIN calls : calls[c].status = "panic"
    /\ \E d \in Done : calls[d].werr \in SinkErrors
    /\ encoderPool # {}
    /\ HeldBuilders # {}
    /\ builderPool # {}

(***************************************************************************)
(* The logging front end: a logger made by NewLogger(out, Console), whose  *)
(* handler's options point to the logger's slog.LevelVar.  A name is a     *)
(* string; Runes gives its characters, on which strings.ToLower works;     *)
(* "U+0130" stands for the one character of that code point.               *)
(***************************************************************************)
MaxCounter == 4       \* counters tried run from -1 to MaxCounter

Runes ==
    ("error" :> <<"e", "r", "r", "o", "r">>) @@
    ("ERROR" :> <<"E", "R", "R", "O", "R">>) @@
    ("Warn" :> <<"W", "a", "r", "n">>) @@
    ("wArN" :> <<"w", "A", "r", "N">>) @@
    ("warning" :> <<"w", "a", "r", "n", "i", "n", "g">>) @@
    ("WaRnInG" :> <<"W", "a", "R", "n", "I", "n", "G">>) @@
    ("InFo" :> <<"I", "n", "F", "o">>) @@
    ("U+0130NFO" :> <<"U+0130", "N", "F", "O">>) @@
    ("debug" :> <<"d", "e", "b", "u", "g">>) @@
    ("DEBUG" :> <<"D", "E", "B", "U", "G">>) @@
    ("verbose" :> <<"v", "e", "r", "b", "o", "s", "e">>) @@
    ("" :> <<>>) @@
    ("warn " :> <<"w", "a", "r", "n", " ">>) @@
    ("err" :> <<"e", "r", "r">>) @@
    ("informal" :> <<"i", "n", "f", "o", "r", "m", "a", "l">>)

LevelNames == DOMAIN Runes

\* unicode.ToLower on the letters that occur; U+0130 has the lower case i
LowerCase ==
    ("A" :> "a") @@ ("B" :> "b") @@ ("D" :> "d") @@ ("E" :> "e") @@ ("F" :> "f") @@
    ("G" :> "g") @@ ("I" :> "i") @@ ("N" :> "n") @@ ("O" :> "o") @@ ("R" :> "r") @@
    ("U" :> "u") @@ ("W" :> "w") @@
    ("U+0130" :> "i")

ToLower(runes) ==
    [i \in DOMAIN runes |->
        IF runes[i] \in DOMAIN LowerCase THEN LowerCase[runes[i]] ELSE runes[i]]

\* the levels of logger.Debug, Info, Warn and Error
LogLevels == {LevelDebug, LevelInfo, LevelWarn, LevelError}

LoggerInit ==
    /\ handlers = <<NewConsoleHandler(1, 1, [set |-> TRUE, level |-> 0, var |-> TRUE])>>
    /\ arrays = <<>>
    /\ mutex = [m \in 1..MaxHandlers |-> 0]
    /\ sink = [w \in 1..MaxHandlers |-> <<>>]
    /\ builders = <<>>
    /\ builderPool = {}
    /\ encoders = <<>>
    /\ encoderPool = {}
    /\ indentCache = <<>>
    /\ pc = [t \in Threads |-> "idle"]
    /\ cur = [t \in Threads |-> Idle]
    /\ calls = <<>>
    /\ last = NoCall
    /\ ops = 0
    /\ levelVar = LevelInfo

\* l.level.Set(level)
SetLevel(level) == levelVar' = level

\* Debug from 4 on, Info for 2 and 3
SetLevelByCounterFromFour(t, i) ==
    /\ FirstIdle(t)
    /\ SetLevel(IF i >= 4 THEN LevelDebug
                ELSE IF i >= 2 THEN LevelInfo
                ELSE IF i = 1 THEN LevelWarn
                ELSE LevelError)
    /\ last' = Returned("SetLevelByCounter", 0, <<>>, "", i, 0, TRUE, FALSE)
    /\ ops' = ops + 1
    /\ UNCHANGED <<handlers, arrays, mutex, sink, builders, builderPool, encoders,
                   encoderPool, indentCache, pc, cur, calls>>

SetLevelByCounter(t, i) ==
    /\ FirstIdle(t)
    /\ SetLevel(IF i >= 3 THEN LevelDebug
                ELSE IF i = 2 THEN LevelInfo
                ELSE IF i = 1 THEN LevelWarn
                ELSE LevelError)
    /\ last' = Returned("SetLevelByCounter", 0, <<>>, "", i, 0, TRUE, FALSE)
    /\ ops' = ops + 1
    /\ UNCHANGED <<handlers, arrays, mutex, sink, builders, builderPool, encoders,
                   encoderPool, indentCache, pc, cur, calls>>

\* the name compared as it is, strings.ToLower left out
SetLevelByNameAsIs(t, name) ==
    /\ FirstIdle(t)
    /\ LET lower == Runes[name]
           known == lower \in {<<"e", "r", "r", "o", "r">>, <<"w", "a", "r", "n">>,
                              <<"w", "a", "r", "n", "i", "n", "g">>,
                              <<"i", "n", "f", "o">>, <<"d", "e", "b", "u", "g">>}
       IN  /\ IF lower = <<"e", "r", "r", "o", "r">> THEN SetLevel(LevelError)
              ELSE IF lower \in {<<"w", "a", "r", "n">>,
                                 <<"w", "a", "r", "n", "i", "n", "g">>}
                   THEN SetLevel(LevelWarn)
              ELSE IF lower = <<"i", "n", "f", "o">> THEN SetLevel(LevelInfo)
              ELSE IF lower = <<"d", "e", "b", "u", "g">> THEN SetLevel(LevelDebug)
              ELSE UNCHANGED levelVar
           /\ last' = Returned("SetLevelByName", 0, <<>>, name, 0, 0, known, FALSE)
    /\ ops' = ops + 1
    /\ UNCHANGED <<handlers, arrays, mutex, sink, builders, builderPool, encoders,
                   encoderPool, indentCache, pc, cur, calls>>

\* ok records that the error returned is nil
SetLevelByName(t, name) ==
    /\ FirstIdle(t)
    /\ LET lower == ToLower(Runes[name])
           known == lower \in {<<"e", "r", "r", "o", "r">>, <<"w", "a", "r", "n">>,
                              <<"w", "a", "r", "n", "i", "n", "g">>,
                              <<"i", "n", "f", "o">>, <<"d", "e", "b", "u", "g">>}
       IN  /\ IF lower = <<"e", "r", "r", "o", "r">> THEN SetLevel(LevelError)
              ELSE IF lower \in {<<"w", "a", "r", "n">>,
                                 <<"w", "a", "r", "n", "i", "n", "g">>}
                   THEN SetLevel(LevelWarn)
              ELSE IF lower = <<"i", "n", "f", "o">> THEN SetLevel(LevelInfo)
              ELSE IF lower = <<"d", "e", "b", "u", "g">> THEN SetLevel(LevelDebug)
              ELSE UNCHANGED levelVar
           /\ last' = Returned("SetLevelByName", 0, <<>>, name, 0, 0, known, FALSE)
    /\ ops' = ops + 1
    /\ UNCHANGED <<handlers, arrays, mutex, sink, builders, builderPool, encoders,
                   encoderPool, indentCache, pc, cur, calls>>

\* l.logger.Debug / Info / Warn / Error: slog's Logger asks the handler
\* whether the level is enabled and hands it the record when it is
LoggerLog(t, h, level) ==
    IF EnabledFor(handlers[h], level)
    THEN HandleFormat(t, h, NewRecord(TRUE, level, "msg", <<>>))
    ELSE /\ FirstIdle(t)
         /\ last' = Returned("Log", h, <<>>, "", level, 0, FALSE, FALSE)
         /\ ops' = ops + 1
         /\ UNCHANGED <<handlers, arrays, mutex, sink, builders, builderPool,
                        encoders, encoderPool, indentCache, pc, cur, calls, levelVar>>

LoggerNext ==
    \/ \E t \in Threads, i \in (0 - 1)..MaxCounter : SetLevelByCounter(t, i)
    \/ \E t \in Threads, name \in LevelNames : SetLevelByName(t, name)
    \/ \E t \in Threads, level \in LogLevels : LoggerLog(t, 1, level)
    \/ \E t \in Threads : HandleLock(t)
    \/ \E t \in Threads : SinkWrite(t)
    \/ \E t \in Threads : HandleReturn(t)
    \/ Resume

LoggerSpec == LoggerInit /\ [][LoggerNext]_vars

(***************************************************************************)
(* C19: SetLevelByCounter(i) leaves the level at Error for i <= 0, Warn    *)
(* for i = 1, Info for i = 2 and Debug for i >= 3; the level changes only  *)
(* in a call that sets it; a message logged at level L reaches the handler *)
(* only when L is at or above the level, is dropped only when L is below   *)
(* it, and what reaches the handler is written with its level.             *)
(***************************************************************************)
CounterLevel(i) ==
    IF i <= 0 THEN LevelError
    ELSE IF i = 1 THEN LevelWarn
    ELSE IF i = 2 THEN LevelInfo
    ELSE LevelDebug

C19_Inv ==
    /\ last.op = "SetLevelByCounter" => levelVar = CounterLevel(last.level)
    /\ \A c \in Done :
           Written(c) = <<HeaderLine(NewRecord(TRUE, calls[c].r.level, "msg", <<>>))>>

C19_LevelByCounter ==
    /\ []C19_Inv
    /\ [][levelVar' # levelVar => last'.op \in {"SetLevelByCounter", "SetLevelByName"}]_vars
    /\ [][Len(calls') > Len(calls) => calls'[Len(calls')].r.level >= levelVar]_vars
    /\ [][last'.op = "Log" => last'.level < levelVar]_vars

\* with the level set to Debug by a counter, a Debug message has been
\* written, which the level a new logger has would have dropped
C19_Witness ==
    /\ levelVar = LevelDebug
    /\ \E c \in Done : calls[c].r.level = LevelDebug /\ Len(Written(c)) = 1

(***************************************************************************)
(* C20: SetLevelByName returns no error exactly for a name that spells     *)
(* error, warn, warning, info or debug, each letter in either case, and    *)
(* then the level is the one named; for any other name it returns an error *)
(* and the level is what it was.  U+0130, whose lower case is i, counts as *)
(* a capital of i.                                                         *)
(***************************************************************************)
UpperCase ==
    ("a" :> "A") @@ ("b" :> "B") @@ ("d" :> "D") @@ ("e" :> "E") @@ ("f" :> "F") @@
    ("g" :> "G") @@ ("i" :> "I") @@ ("n" :> "N") @@ ("o" :> "O") @@ ("r" :> "R") @@
    ("u" :> "U") @@ ("w" :> "W")

Spellings(ch) ==
    {ch, UpperCase[ch]} \cup (IF ch = "i" THEN {"U+0130"} ELSE {})

Spells(runes, word) ==
    /\ Len(runes) = Len(word)
    /\ \A i \in DOMAIN word : runes[i] \in Spellings(word[i])

NamedLevels ==
    { [word |-> <<"e", "r", "r", "o", "r">>, level |-> LevelError],
      [word |-> <<"w", "a", "r", "n">>, level |-> LevelWarn],
      [word |-> <<"w", "a", "r", "n", "i", "n", "g">>, level |-> LevelWarn],
      [word |-> <<"i", "n", "f", "o">>, level |-> LevelInfo],
      [word |-> <<"d", "e", "b", "u", "g">>, level |-> LevelDebug] }

C20_Inv ==
    last.op = "SetLevelByName" =>
        /\ last.ok <=> \E n \in NamedLevels : Spells(Runes[last.name], n.word)
        /\ \A n \in NamedLevels :
               Spells(Runes[last.name], n.word) => levelVar = n.level

LoggerAttrLists == {<<>>, <<StringAttr("k", "v")>>}

LoggerNames == {"", "g"}

\* l.level.Set(level) on the logger of handler h
LoggerSetLevel(t, h, level) ==
    /\ FirstIdle(t)
    /\ SetLevel(level)
    /\ last' = Returned("SetLevel", h, <<>>, "", level, 0, TRUE, FALSE)
    /\ ops' = ops + 1
    /\ UNCHANGED <<handlers, arrays, mutex, sink, builders, builderPool, encoders,
                   encoderPool, indentCache, pc, cur, calls>>

\* &logger{l.logger.With(args...), l.level}: slog's Logger hands the
\* attributes to its handler's WithAttrs
LoggerWith(t, h, attrs) == WithAttrs(t, h, attrs)

\* the derived logger's handler given the level as it is now, and no more
\* the variable
LoggerWithGroupOwnLevel(t, h, name) ==
    /\ FirstIdle(t)
    /\ LET cl == Clone(arrays, handlers[h].unopenedGroups)
           ap == AppendSlice(cl.arrs, cl.s, name)
           h2 == [handlers[h] EXCEPT !.unopenedGroups = ap.s, !.from = h,
                                     !.opts = [Level |-> [var |-> FALSE,
                                                          level |-> levelVar]]]
       IN  /\ arrays' = ap.arrs
           /\ handlers' = Append(handlers, h2)
    /\ last' = Returned("WithGroup", h, <<>>, name, 0, Len(handlers) + 1, FALSE, FALSE)
    /\ ops' = ops + 1
    /\ UNCHANGED <<levelVar, mutex, sink, builders, builderPool, encoders, encoderPool,
                   indentCache, pc, cur, calls>>

\* &logger{l.logger.WithGroup(name), l.level}: slog's Logger hands the name
\* to its handler's WithGroup
LoggerWithGroup(t, h, name) == WithGroup(t, h, name)

DerivedNext ==
    \/ \E t \in Threads, h \in DOMAIN handlers, level \in LogLevels :
           LoggerSetLevel(t, h, level)
    \/ \E t \in Threads, i \in (0 - 1)..MaxCounter : SetLevelByCounter(t, i)
    \/ \E t \in Threads, name \in {"DEBUG", "Warn", "verbose"} : SetLevelByName(t, name)
    \/ \E t \in Threads, h \in DOMAIN handlers, attrs \in LoggerAttrLists :
           LoggerWith(t, h, attrs)
    \/ \E t \in Threads, h \in DOMAIN handlers, name \in LoggerNames :
           LoggerWithGroup(t, h, name)
    \/ \E t \in Threads, h \in DOMAIN handlers, level \in LogLevels :
           LoggerLog(t, h, level)
    \/ \E t \in Threads : HandleLock(t)
    \/ \E t \in Threads : SinkWrite(t)
    \/ \E t \in Threads : HandleReturn(t)
    \/ Resume

DerivedSpec == LoggerInit /\ [][DerivedNext]_vars

(***************************************************************************)
(* C21: every logger derived from the one NewLogger made, by With and      *)
(* WithGroup in any order, filters by the level variable of that logger:   *)
(* the level its handler reads is the level set last, on whichever logger  *)
(* it was set; a message logged at level L through any of them reaches the *)
(* handler only when L is at or above that level and is dropped only when  *)
(* L is below it; and deriving a logger leaves the level as it is.         *)
(***************************************************************************)
C21_Inv ==
    /\ \A h \in DOMAIN handlers :
           /\ LevelOf(handlers[h].opts.Level) = levelVar
           /\ \A l \in LogLevels : EnabledFor(handlers[h], l) <=> l >= levelVar
    /\ last.op = "SetLevel" => levelVar = last.level

C21_SharedLevel ==
    /\ []C21_Inv
    /\ [][Len(calls') > Len(calls) => calls'[Len(calls')].r.level >= levelVar]_vars
    /\ [][last'.op = "Log" => last'.level < levelVar]_vars
    /\ [][last'.op \in {"WithAttrs", "WithGroup"} => levelVar' = levelVar]_vars

\* a Debug message, which a new logger drops, has been written through a
\* logger derived by WithGroup and With, and a derived logger with another
\* handler is there as well, the level being Debug for all of them
C21_Witness ==
    /\ levelVar = LevelDebug
    /\ \E c \in Done :
           /\ calls[c].h > 1
           /\ calls[c].r.level = LevelDebug
           /\ Len(Written(c)) >= 1
    /\ \A h \in DOMAIN handlers : EnabledFor(handlers[h], LevelDebug)

(***************************************************************************)
(* Nested groups: attribute lists in which a string attribute lies under   *)
(* every chain of up to MaxDepth groups, each named or anonymous, given to *)
(* WithAttrs and carried by records, on handlers with and without pending  *)
(* groups.                                                                 *)
(***************************************************************************)
MaxDepth == 3         \* groups one inside the other in an attribute

\* the attributes with at most d groups around the string x; a group holds
\* the attribute one level less deep and then a number
RECURSIVE Chains(_)
Chains(d) ==
    IF d = 0 THEN {StringAttr("x", "1")}
    ELSE Chains(d - 1) \cup
         { GroupAttr(k, <<a, IntAttr("y", "2")>>) :
               k \in {"", "a"}, a \in Chains(d - 1) }

NestAttrLists == { <<a, StringAttr("z", "3")>> : a \in Chains(MaxDepth) }

NestRecords == { NewRecord(FALSE, LevelInfo, "m", as) : as \in NestAttrLists }

\* the lists given to WithAttrs: one group less
NestPrefixLists == { <<a, StringAttr("z", "3")>> : a \in Chains(MaxDepth - 1) }

\* one caller: the indentation of a line does not depend on who else runs
NestNext ==
    \/ \E h \in DOMAIN handlers, r \in NestRecords : HandleFormat(1, h, r)
    \/ HandleLock(1)
    \/ SinkWrite(1)
    \/ HandleReturn(1)
    \/ \E h \in DOMAIN handlers, attrs \in NestPrefixLists : WithAttrs(1, h, attrs)
    \/ \E h \in DOMAIN handlers : WithGroup(1, h, "g")
    \/ Resume

NestSpec == DeepInit /\ [][NestNext]_vars

(***************************************************************************)
(* C22: an attribute is rendered at the starting indentation plus the      *)
(* number of the groups around it that have a key: a group with a key and  *)
(* with attributes gives one header line at the indentation it is met at   *)
(* and its attributes one level deeper, a group without a key and with     *)
(* attributes gives no header and its attributes at the same indentation,  *)
(* at every depth.  This holds of the record's attributes in Handle, the   *)
(* starting indentation being the handler's plus its pending groups, and   *)
(* of the list given to WithAttrs.                                         *)
(***************************************************************************)
\* the lines an attribute list gives, each with the number of keyed groups
\* around it, n of them being around the list itself
RECURSIVE Flat(_, _)
Flat(attrs, n) ==
    IF attrs = <<>> THEN <<>>
    ELSE LET a == Head(attrs)
             here == IF a.kind # "group" THEN <<[kind |-> "leaf", key |-> a.key, keyed |-> n]>>
                     ELSE IF a.key = "" THEN Flat(a.group, n)
                     ELSE <<[kind |-> "group", key |-> a.key, keyed |-> n]>>
                          \o Flat(a.group, n + 1)
         IN  here \o Flat(Tail(attrs), n)

\* the lines of text from line first on are those of attrs, from the
\* indentation start on
RenderedAt(text, first, attrs, start) ==
    LET flat == Flat(attrs, 0)
    IN  /\ Len(text) = first - 1 + Len(flat)
        /\ \A i \in DOMAIN flat :
               LET line == text[first - 1 + i]
               IN  /\ line.ind = 2 * (start + flat[i].keyed)
                   /\ line.key = flat[i].key
                   /\ (line.kind = "group") <=> (flat[i].kind = "group")

C22_GroupIndentation ==
    /\ \A c \in Succeeded :
           LET hd == handlers[calls[c].h]
               k == Len(Groups(calls[c].h))
           IN  RenderedAt(Written(c), 2 + Len(hd.preBuf) + k, calls[c].r.attrs,
                          hd.indent + k)
    /\ (last.op = "WithAttrs" /\ last.ret # last.h) =>
           LET p == handlers[last.h]
               k == Len(Groups(last.h))
           IN  RenderedAt(handlers[last.ret].preBuf, 1 + Len(p.preBuf) + k, last.attrs,
                          p.indent + k)

\* a record whose string lies under a keyed group inside an anonymous group
\* inside a keyed group has been written through a handler that has a
\* prefix and a pending group: the string is two levels below the start
C22_Witness ==
    \E c \in Succeeded :
        LET as == calls[c].r.attrs
            hd == handlers[calls[c].h]
        IN  /\ as[1].kind = "group" /\ as[1].key = "a"
            /\ as[1].group[1].kind = "group" /\ as[1].group[1].key = ""
            /\ as[1].group[1].group[1].kind = "group"
            /\ as[1].group[1].group[1].key = "a"
            /\ hd.preBuf # <<>>
            /\ Groups(calls[c].h) # <<>>
            /\ \E i \in DOMAIN Written(c) :
                   /\ Written(c)[i].key = "x"
                   /\ Written(c)[i].ind = 2 * (hd.indent + Len(Groups(calls[c].h)) + 2)

(***************************************************************************)
(* Handlers with pending groups: Handle called on the handlers of a chain  *)
(* of derivations that leaves handlers of base indentation 1 and 2 with    *)
(* no, one and two pending groups, with and without a buffered prefix.     *)
(***************************************************************************)
\* the heap after h.WithGroup(name), name not empty
DeriveGroup(heap, h, name) ==
    LET cl == Clone(heap.arrays, heap.handlers[h].unopenedGroups)
        ap == AppendSlice(cl.arrs, cl.s, name)
        h2 == [heap.handlers[h] EXCEPT !.unopenedGroups = ap.s, !.from = h]
    IN  [handlers |-> Append(heap.handlers, h2), arrays |-> ap.arrs]

\* the heap after h.WithAttrs(attrs), attrs not empty
DeriveAttrs(heap, h, attrs) ==
    LET h2 == [heap.handlers[h] EXCEPT !.from = h]
        res == WithAttrsRender(heap.arrays, h2, attrs,
                               RenderState(<<>>, NewEncoder, NewCache))
    IN  [handlers |-> Append(heap.handlers, res.h), arrays |-> heap.arrays]

\* h1 := NewConsoleHandler(w, nil); h2 := h1.WithGroup("g");
\* h3 := h2.WithAttrs(k=v); h4 := h3.WithGroup("h")
ShortChain ==
    LET s1 == [handlers |-> <<NewConsoleHandler(1, 1, [set |-> FALSE, level |-> 0,
                                                       var |-> FALSE])>>,
               arrays |-> <<>>]
        s2 == DeriveGroup(s1, 1, "g")
        s3 == DeriveAttrs(s2, 2, <<StringAttr("k", "v")>>)
    IN  DeriveGroup(s3, 3, "h")

\* and then h5 := h4.WithGroup("g"); h6 := h2.WithGroup("h")
PendingChain == DeriveGroup(DeriveGroup(ShortChain, 4, "g"), 2, "h")

\* the state the calls of PendingChain leave: WithAttrs has published the
\* indentation table and has put the builder it borrowed back
PendingInit ==
    /\ handlers = PendingChain.handlers
    /\ arrays = PendingChain.arrays
    /\ mutex = [m \in 1..MaxHandlers |-> 0]
    /\ sink = [w \in 1..MaxHandlers |-> <<>>]
    /\ builders = << <<>> >>
    /\ builderPool = {1}
    /\ encoders = <<>>
    /\ encoderPool = {}
    /\ indentCache = NewCache
    /\ pc = [t \in Threads |-> "idle"]
    /\ cur = [t \in Threads |-> Idle]
    /\ calls = <<>>
    /\ last = NoCall
    /\ ops = 0
    /\ levelVar = LevelInfo

\* one caller: what a call writes does not depend on who else runs
PendingNext ==
    \/ \E h \in DOMAIN handlers, r \in Records : HandleFormat(1, h, r)
    \/ HandleLock(1)
    \/ SinkWrite(1)
    \/ HandleReturn(1)

PendingSpec == PendingInit /\ [][PendingNext]_vars

(***************************************************************************)
(* C23: Handle on a handler of base indentation i with pending groups      *)
(* g1..gk.  For a record with at least one attribute the text is the       *)
(* header line, the buffered prefix, one header line for each pending      *)
(* group, gj at indentation i+j-1, and the lines of the record's           *)
(* attributes from indentation i+k on, none of them less deep.  For a      *)
(* record without attributes the text is the header line and the buffered  *)
(* prefix and no pending group's header.                                   *)
(***************************************************************************)
C23_TextOf(text, h, r) ==
    LET hd == handlers[h]
        i == hd.indent
        g == Groups(h)
        k == Len(g)
        n == Len(hd.preBuf)
    IN  /\ text[1] = HeaderLine(r)
        /\ SubSeq(text, 2, n + 1) = hd.preBuf
        /\ IF Len(r.attrs) > 0
           THEN /\ Len(text) >= n + 1 + k
                /\ \A j \in 1..k : text[n + 1 + j] = GroupLine(2 * (i + j - 1), g[j])
                /\ SubSeq(text, n + k + 2, Len(text)) = LinesOfAttrs(r.attrs, i + k)
                /\ \A j \in (n + k + 2)..Len(text) : text[j].ind >= 2 * (i + k)
           ELSE Len(text) = n + 1

C23_PendingGroupsFlushed ==
    /\ \A t \in InHandle :
           C23_TextOf(builders[cur[t].b], calls[cur[t].call].h, calls[cur[t].call].r)
    /\ \A c \in Succeeded : C23_TextOf(Written(c), calls[c].h, calls[c].r)

\* through one handler of base indentation 2, with a prefix and two pending
\* groups, a record with attributes and a record without have been written
C23_Witness ==
    \E c, d \in Succeeded :
        /\ calls[c].h = calls[d].h
        /\ handlers[calls[c].h].indent = 2
        /\ Len(Groups(calls[c].h)) = 2
        /\ handlers[calls[c].h].preBuf # <<>>
        /\ Len(calls[c].r.attrs) > 0
        /\ Len(Written(c)) > Len(handlers[calls[c].h].preBuf) + 3
        /\ calls[d].r.attrs = <<>>
        /\ Len(Written(d)) = Len(handlers[calls[c].h].preBuf) + 1

(***************************************************************************)
(* getIndent step by step, for callers that run it at the same time.  The  *)
(* tables lie on the heap of backing arrays; indentCache holds the slice   *)
(* its pointer refers to, <<>> while the pointer is nil.  A caller's       *)
(* locals are indent, cache (what Load returned), newCache and i.  A call  *)
(* that has returned is kept with its argument, what it returned and the   *)
(* table it read.  The zero string is a string of no spaces, 0.            *)
(***************************************************************************)
CacheLevels == {0, maxIndent, maxIndent + 1}

\* cache := indentCache.Load(); if cache == nil
GetIndentLoad(t, n) ==
    /\ FirstIdle(t)
    /\ cur' = [cur EXCEPT ![t] = [indent |-> n, cache |-> indentCache,
                                  newCache |-> NilSlice, i |-> 0]]
    /\ pc' = [pc EXCEPT ![t] = IF indentCache = <<>> THEN "make" ELSE "index"]
    /\ ops' = ops + 1
    /\ UNCHANGED <<levelVar, handlers, arrays, mutex, sink, builders, builderPool,
                   encoders, encoderPool, indentCache, calls, last>>

\* the table stored as soon as it is made, and filled afterwards
GetIndentMakeStored(t) ==
    /\ pc[t] = "make"
    /\ arrays' = Append(arrays, [k \in 1..(maxIndent + 1) |-> 0])
    /\ cur' = [cur EXCEPT ![t].newCache = [arr |-> Len(arrays) + 1, len |-> maxIndent + 1],
                          ![t].i = 0]
    /\ indentCache' = [arr |-> Len(arrays) + 1, len |-> maxIndent + 1]
    /\ pc' = [pc EXCEPT ![t] = "fill"]
    /\ UNCHANGED <<levelVar, handlers, mutex, sink, builders, builderPool, encoders,
                   encoderPool, calls, last, ops>>

\* newCache := make([]string, maxIndent+1); i := 0
GetIndentMake(t) ==
    /\ pc[t] = "make"
    /\ arrays' = Append(arrays, [k \in 1..(maxIndent + 1) |-> 0])
    /\ cur' = [cur EXCEPT ![t].newCache = [arr |-> Len(arrays) + 1, len |-> maxIndent + 1],
                          ![t].i = 0]
    /\ pc' = [pc EXCEPT ![t] = "fill"]
    /\ UNCHANGED <<levelVar, handlers, mutex, sink, builders, builderPool, encoders,
                   encoderPool, indentCache, calls, last, ops>>

\* i <= maxIndent: newCache[i] = strings.Repeat("  ", i); i++
GetIndentFill(t) ==
    /\ pc[t] = "fill"
    /\ IF cur[t].i <= maxIndent
       THEN /\ arrays' = [arrays EXCEPT ![cur[t].newCache.arr][cur[t].i + 1] =
                                            Repeat(2, cur[t].i)]
            /\ cur' = [cur EXCEPT ![t].i = @ + 1]
            /\ pc' = pc
       ELSE /\ pc' = [pc EXCEPT ![t] = "store"]
            /\ UNCHANGED <<arrays, cur>>
    /\ UNCHANGED <<levelVar, handlers, mutex, sink, builders, builderPool, encoders,
                   encoderPool, indentCache, calls, last, ops>>

\* indentCache.Store(&newCache)
GetIndentStore(t) ==
    /\ pc[t] = "store"
    /\ indentCache' = cur[t].newCache
    /\ pc' = [pc EXCEPT ![t] = "reload"]
    /\ UNCHANGED <<levelVar, handlers, arrays, mutex, sink, builders, builderPool,
                   encoders, encoderPool, cur, calls, last, ops>>

\* cache = indentCache.Load()
GetIndentReload(t) ==
    /\ pc[t] = "reload"
    /\ cur' = [cur EXCEPT ![t].cache = indentCache]
    /\ pc' = [pc EXCEPT ![t] = "index"]
    /\ UNCHANGED <<levelVar, handlers, arrays, mutex, sink, builders, builderPool,
                   encoders, encoderPool, indentCache, calls, last, ops>>

\* if indent <= maxIndent { return (*cache)[indent] }
\* return strings.Repeat("  ", indent)
GetIndentReturn(t) ==
    /\ pc[t] = "index"
    /\ calls' = Append(calls,
                       [level |-> cur[t].indent,
                        table |-> cur[t].cache.arr,
                        built |-> cur[t].newCache.arr,
                        ret |-> IF cur[t].indent <= maxIndent
                                THEN Slice(arrays, cur[t].cache)[cur[t].indent + 1]
                                ELSE Repeat(2, cur[t].indent)])
    /\ pc' = [pc EXCEPT ![t] = "idle"]
    /\ cur' = [cur EXCEPT ![t] = Idle]
    /\ UNCHANGED <<levelVar, handlers, arrays, mutex, sink, builders, builderPool,
                   encoders, encoderPool, indentCache, last, ops>>

CacheNext ==
    \/ \E t \in Threads, n \in CacheLevels : GetIndentLoad(t, n)
    \/ \E t \in Threads : GetIndentMake(t)
    \/ \E t \in Threads : GetIndentFill(t)
    \/ \E t \in Threads : GetIndentStore(t)
    \/ \E t \in Threads : GetIndentReload(t)
    \/ \E t \in Threads : GetIndentReturn(t)

CacheSpec == DeepInit /\ [][CacheNext]_vars

(***************************************************************************)
(* C24: whatever the interleaving of the callers that find the pointer     *)
(* nil, every call returns 2n spaces for its level n; the table the        *)
(* pointer refers to, and every table a caller has loaded, has the entries *)
(* 0..30, entry i being 2i spaces; no step changes an entry of such a      *)
(* table; and the pointer, once set, is never nil again and refers ever    *)
(* after to a table of the same contents.                                  *)
(***************************************************************************)
\* the tables a caller can read: the published one and those loaded
Visible ==
    (IF indentCache = <<>> THEN {} ELSE {indentCache})
        \cup {cur[t].cache : t \in {u \in Threads : pc[u] = "index"}}

C24_Inv ==
    /\ \A c \in DOMAIN calls : calls[c].ret = 2 * calls[c].level
    /\ \A s \in Visible :
           /\ s.len = maxIndent + 1
           /\ Len(arrays[s.arr]) = maxIndent + 1
           /\ \A i \in 0..maxIndent : arrays[s.arr][i + 1] = 2 * i

C24_CacheRace ==
    /\ []C24_Inv
    /\ [][\A s \in Visible : arrays'[s.arr] = arrays[s.arr]]_vars
    /\ [][indentCache # <<>> =>
              /\ indentCache' # <<>>
              /\ Slice(arrays', indentCache') = Slice(arrays, indentCache)]_vars

\* two callers found the pointer nil and each built and stored a table; the
\* call that read the first table returned after the second had taken its
\* place
C24_Witness ==
    /\ Len(arrays) = 2
    /\ indentCache # <<>>
    /\ indentCache.arr = 2
    /\ \E c, d \in DOMAIN calls :
           /\ c > d
           /\ calls[c].table = 1
           /\ calls[d].table = 2
           /\ calls[c].built # 0
           /\ calls[d].built # 0
           /\ calls[c].level = maxIndent

(***************************************************************************)
(* C25: a builder taken from builderPool is reset before anything is       *)
(* written to it, and so is the encoder's buffer: the text of a Handle     *)
(* call, in its builder and in the sink, begins with the header line of    *)
(* its own record, holds no other header line and no indentation left by a *)
(* render that panicked, has as many lines as the record's text, and each  *)
(* encoded value in it is the one value encoded for that line; a buffered  *)
(* prefix holds no header line and no such indentation either.             *)
(***************************************************************************)
C25_Clean(text, h, r) ==
    /\ Len(text) = Len(RecordText(h, r))
    /\ text[1] = HeaderLine(r)
    /\ \A i \in 2..Len(text) :
           /\ text[i].kind \notin {"header", "prefix"}
           /\ text[i].kind = "json" => Len(text[i].val) = 1

C25_BufferReset ==
    /\ \A t \in InHandle :
           C25_Clean(builders[cur[t].b], calls[cur[t].call].h, calls[cur[t].call].r)
    /\ \A c \in Succeeded : C25_Clean(Written(c), calls[c].h, calls[c].r)
    /\ \A h \in DOMAIN handlers : \A i \in DOMAIN handlers[h].preBuf :
           /\ handlers[h].preBuf[i].kind \notin {"header", "prefix"}
           /\ handlers[h].preBuf[i].kind = "json" => Len(handlers[h].preBuf[i].val) = 1

\* a Handle call has panicked with its builder partly filled, and a later
\* call, which had no other builder to take, has written its record
C25_Witness ==
    /\ Len(builders) = 1
    /\ \E c \in DOMAIN calls, d \in Succeeded :
           /\ c < d
           /\ calls[c].status = "panic"
           /\ Len(calls[c].r.attrs) > 1
           /\ Len(Written(d)) > 1

(***************************************************************************)
(* The default case of appendAttr step by step, for callers that render an *)
(* attribute k at indentation 1 at the same time.  A caller's locals are   *)
(* the value v, the encoder it borrowed, and data and err, what Encode     *)
(* returned.  A call that is over is kept with its value, its encoder, the *)
(* line it wrote and whether, when it wrote, its encoder was with another  *)
(* caller.                                                                 *)
(***************************************************************************)
EncodedValues == {"7", "42", "chan"}

InAppendAttr == {t \in Threads : pc[t] \in {"reset", "encode", "string", "put"}}

\* prefix := getIndent(indent); encoder := encoderPool.Get().(*jsonEncoder);
\* encoder.enc.SetIndent(prefix, "  ")
AttrGet(t, v) ==
    /\ FirstIdle(t)
    /\ \E e \in PoolGet(encoders, encoderPool) :
         /\ encoders' = HeapPut(encoders, e,
                                [EncoderOf(e) EXCEPT !.indent = getIndent(indentCache, 1)])
         /\ encoderPool' = encoderPool \ {e}
         /\ cur' = [cur EXCEPT ![t] = [v |-> v, enc |-> e, data |-> <<>>, err |-> FALSE]]
    /\ indentCache' = CacheAfterGet(indentCache)
    /\ pc' = [pc EXCEPT ![t] = "reset"]
    /\ ops' = ops + 1
    /\ UNCHANGED <<levelVar, handlers, arrays, mutex, sink, builders, builderPool,
                   calls, last>>

\* Encode: p.buf.Reset()
AttrReset(t) ==
    /\ pc[t] = "reset"
    /\ encoders' = [encoders EXCEPT ![cur[t].enc].buf = Reset(@)]
    /\ pc' = [pc EXCEPT ![t] = "encode"]
    /\ UNCHANGED <<levelVar, handlers, arrays, mutex, sink, builders, builderPool,
                   encoderPool, indentCache, cur, calls, last, ops>>

\* the encoder put back into the pool as soon as the value is encoded, before
\* the text is taken out of its buffer
AttrEncodePutEarly(t) ==
    /\ pc[t] = "encode"
    /\ IF Encodable(cur[t].v)
       THEN /\ encoders' = [encoders EXCEPT ![cur[t].enc].buf = @ \o <<cur[t].v, "\n">>]
            /\ pc' = [pc EXCEPT ![t] = "string"]
            /\ cur' = cur
       ELSE /\ cur' = [cur EXCEPT ![t].err = TRUE]
            /\ pc' = [pc EXCEPT ![t] = "put"]
            /\ encoders' = encoders
    /\ encoderPool' = encoderPool \cup {cur[t].enc}
    /\ UNCHANGED <<levelVar, handlers, arrays, mutex, sink, builders, builderPool,
                   indentCache, calls, last, ops>>

\* Encode: err := p.enc.Encode(v); if err != nil { return "", err }
AttrEncode(t) ==
    /\ pc[t] = "encode"
    /\ IF Encodable(cur[t].v)
       THEN /\ encoders' = [encoders EXCEPT ![cur[t].enc].buf = @ \o <<cur[t].v, "\n">>]
            /\ pc' = [pc EXCEPT ![t] = "string"]
            /\ cur' = cur
       ELSE /\ cur' = [cur EXCEPT ![t].err = TRUE]
            /\ pc' = [pc EXCEPT ![t] = "put"]
            /\ encoders' = encoders
    /\ UNCHANGED <<levelVar, handlers, arrays, mutex, sink, builders, builderPool,
                   encoderPool, indentCache, calls, last, ops>>

\* Encode: return strings.TrimRight(p.buf.String(), "\n"), nil; the string
\* is a copy of the buffer's bytes
AttrString(t) ==
    /\ pc[t] = "string"
    /\ cur' = [cur EXCEPT ![t].data = TrimRight(encoders[cur[t].enc].buf, "\n")]
    /\ pc' = [pc EXCEPT ![t] = "put"]
    /\ UNCHANGED <<levelVar, handlers, arrays, mutex, sink, builders, builderPool,
                   encoders, encoderPool, indentCache, calls, last, ops>>

\* encoderPool.Put(encoder)
AttrPut(t) ==
    /\ pc[t] = "put"
    /\ encoderPool' = encoderPool \cup {cur[t].enc}
    /\ pc' = [pc EXCEPT ![t] = "emit"]
    /\ UNCHANGED <<levelVar, handlers, arrays, mutex, sink, builders, builderPool,
                   encoders, indentCache, cur, calls, last, ops>>

\* if err != nil { panic(...) }; jsonStr := strings.TrimRight(string(data), "\n");
\* the line is written to the builder
AttrEmit(t) ==
    /\ pc[t] = "emit"
    /\ calls' = Append(calls,
           [v |-> cur[t].v,
            enc |-> cur[t].enc,
            status |-> IF cur[t].err THEN "panic" ELSE "done",
            line |-> IF cur[t].err THEN PrefixOnly(getIndent(indentCache, 1))
                     ELSE JSONLine(getIndent(indentCache, 1), normalizeKey("k"),
                                   TrimRight(cur[t].data, "\n")),
            taken |-> \E u \in InAppendAttr : cur[u].enc = cur[t].enc,
            buf |-> encoders[cur[t].enc].buf])
    /\ pc' = [pc EXCEPT ![t] = "idle"]
    /\ cur' = [cur EXCEPT ![t] = Idle]
    /\ UNCHANGED <<levelVar, handlers, arrays, mutex, sink, builders, builderPool,
                   encoders, encoderPool, indentCache, last, ops>>

EncoderNext ==
    \/ \E t \in Threads, v \in EncodedValues : AttrGet(t, v)
    \/ \E t \in Threads : AttrReset(t)
    \/ \E t \in Threads : AttrEncode(t)
    \/ \E t \in Threads : AttrString(t)
    \/ \E t \in Threads : AttrPut(t)
    \/ \E t \in Threads : AttrEmit(t)

EncoderSpec == DeepInit /\ [][EncoderNext]_vars

(***************************************************************************)
(* C26: the text of an encoded value is taken out of the encoder before    *)
(* the encoder goes back into the pool, and it is a text of its own: an    *)
(* encoder is with one caller at a time and not in the pool meanwhile; the *)
(* text a caller holds once Encode has returned is its own value's, and no *)
(* step of another caller, who may have borrowed the same encoder and      *)
(* reset or overwritten its buffer, changes it; the line written bears the *)
(* caller's own value.                                                     *)
(***************************************************************************)
C26_Inv ==
    /\ \A t, u \in InAppendAttr : t # u => cur[t].enc # cur[u].enc
    /\ \A t \in InAppendAttr : cur[t].enc \notin encoderPool
    /\ \A t \in Threads :
           (pc[t] \in {"put", "emit"} /\ ~cur[t].err) => cur[t].data = <<cur[t].v>>
    /\ \A c \in DOMAIN calls :
           /\ calls[c].status = "panic" <=> calls[c].v = "chan"
           /\ calls[c].status = "done" =>
                  calls[c].line = Token("json", FALSE, "darkGray", 2, "k", 0,
                                        <<calls[c].v>>)

C26_EncodedTextOwned ==
    /\ []C26_Inv
    /\ [][\A t \in Threads :
              (pc[t] = "emit" /\ pc'[t] = "emit") => cur'[t].data = cur[t].data]_vars

\* a call wrote the line of its own value while the encoder it had used was
\* with another caller, who had encoded another value into its buffer
C26_Witness ==
    \E c \in DOMAIN calls :
        /\ calls[c].status = "done"
        /\ calls[c].taken
        /\ calls[c].buf # <<>>
        /\ calls[c].buf # <<calls[c].v, "\n">>
        /\ calls[c].line.val = <<calls[c].v>>

(***************************************************************************)
(* Chains of derivations: WithGroup and WithAttrs called, in any order and *)
(* with any of their arguments, on the handlers of PendingChain and on the *)
(* handlers these calls return.                                            *)
(***************************************************************************)
ChainNext ==
    \/ \E h \in DOMAIN handlers, attrs \in AttrLists : WithAttrs(1, h, attrs)
    \/ \E h \in DOMAIN handlers, name \in Names : WithGroup(1, h, name)
    \/ Resume

ChainSpec == PendingInit /\ [][ChainNext]_vars

(***************************************************************************)
(* C27: for every handler got from a new one by WithGroup and WithAttrs    *)
(* calls, the base indentation is at least 1; the base indentation plus    *)
(* the number of pending groups is 1 plus the number of WithGroup calls    *)
(* with a name in the chain of calls that made it; and the base            *)
(* indentation less 1 is the number of WithGroup names whose header line   *)
(* is in its buffered prefix.                                              *)
(***************************************************************************)
\* h came from its parent by WithGroup: WithAttrs leaves no pending group,
\* WithGroup leaves the name it was given as the last one
ByWithGroup(h) == handlers[h].from # 0 /\ Groups(h) # <<>>

\* the WithGroup calls with a name in the chain of calls that made h
RECURSIVE GroupCalls(_)
GroupCalls(h) ==
    IF handlers[h].from = 0 THEN 0
    ELSE GroupCalls(handlers[h].from)
             + (IF ByWithGroup(h) /\ Groups(h)[Len(Groups(h))] # "" THEN 1 ELSE 0)

\* the header lines in the prefix of h that bear a name given to WithGroup;
\* the keys of the group attributes are other names
FlushedNames(h) ==
    Cardinality({i \in DOMAIN handlers[h].preBuf :
                     /\ handlers[h].preBuf[i].kind = "group"
                     /\ handlers[h].preBuf[i].key \in Names \ {""}})

C27_IndentAccounting ==
    \A h \in DOMAIN handlers :
        /\ handlers[h].indent >= 1
        /\ handlers[h].indent + Len(Groups(h)) = 1 + GroupCalls(h)
        /\ handlers[h].indent - 1 = FlushedNames(h)

\* a handler five calls from the new one: three names flushed by two
\* WithAttrs calls, one name pending
C27_Witness ==
    \E h \in DOMAIN handlers :
        /\ handlers[h].indent = 4
        /\ Len(Groups(h)) = 1
        /\ GroupCalls(h) = 4
        /\ FlushedNames(h) = 3

(***************************************************************************)
(* Attributes given early and attributes given with the record: WithAttrs  *)
(* and Handle on the handlers of ShortChain and on those WithAttrs         *)
(* returns, with records r and, for each list A, the record r' made of r   *)
(* with A and then the attributes of r added to it.                        *)
(***************************************************************************)
\* slog.Record.AddAttrs: the attributes are appended, groups without
\* attributes being left out
AddAttrs(r, attrs) ==
    LET Kept(a) == ~(a.kind = "group" /\ a.group = <<>>)
    IN  [r EXCEPT !.attrs = @ \o SelectSeq(attrs, Kept)]

\* lists that are not empty, of values that are resolved and that the
\* encoder can serialise
EquivAttrLists ==
    { <<StringAttr("k", "v")>>,
      <<GroupAttr("s", <<IntAttr("n", "7")>>), StringAttr("k", "v")>>,
      <<EmptyGroup>>,
      <<EmptyGroup, IntAttr("n", "7")>> }

EquivBaseRecords ==
    { AddAttrs(NewRecord(FALSE, LevelInfo, "m", <<>>), as) :
          as \in {<<>>, <<StringAttr("a", "b")>>} }

\* r with the attributes A followed by its own
WithEarlier(r, A) == AddAttrs(NewRecord(r.time, r.level, r.msg, <<>>), A \o r.attrs)

EquivRecords ==
    EquivBaseRecords
        \cup { WithEarlier(r, A) : r \in EquivBaseRecords, A \in EquivAttrLists }

EquivNext ==
    \/ \E h \in DOMAIN handlers, attrs \in EquivAttrLists : WithAttrs(1, h, attrs)
    \/ \E h \in DOMAIN handlers, r \in EquivRecords :
           Len(calls) < MaxLevelCalls /\ HandleFormat(1, h, r)
    \/ HandleLock(1)
    \/ SinkWrite(1)
    \/ HandleReturn(1)
    \/ Resume

\* the state the calls of ShortChain leave
EquivInit ==
    /\ handlers = ShortChain.handlers
    /\ arrays = ShortChain.arrays
    /\ mutex = [m \in 1..MaxHandlers |-> 0]
    /\ sink = [w \in 1..MaxHandlers |-> <<>>]
    /\ builders = << <<>> >>
    /\ builderPool = {1}
    /\ encoders = <<>>
    /\ encoderPool = {}
    /\ indentCache = NewCache
    /\ pc = [t \in Threads |-> "idle"]
    /\ cur = [t \in Threads |-> Idle]
    /\ calls = <<>>
    /\ last = NoCall
    /\ ops = 0
    /\ levelVar = LevelInfo

EquivSpec == EquivInit /\ [][EquivNext]_vars

(***************************************************************************)
(* C28: for every handler h, every list A that is not empty, of resolved   *)
(* values the encoder can serialise, and every record r, the text written  *)
(* by h.WithAttrs(A).Handle(r) is the text written by h.Handle(r'), r'     *)
(* being r with the attributes A followed by its own.                      *)
(***************************************************************************)
\* handler n is what h.WithAttrs(A) returns
IsWithAttrs(n, h, A) ==
    /\ handlers[n].from = h
    /\ handlers[n] =
           WithAttrsRender(arrays, [handlers[h] EXCEPT !.from = h], A,
                           RenderState(<<>>, NewEncoder, indentCache)).h

C28_WithAttrsEquivalence ==
    \A c, d \in Succeeded : \A A \in EquivAttrLists :
        (/\ IsWithAttrs(calls[c].h, calls[d].h, A)
         /\ calls[d].r = WithEarlier(calls[c].r, A))
            => Written(c) = Written(d)

(***************************************************************************)
(* Progress: Handle called by several callers at once on the handlers of   *)
(* ShortChain, which share one mutex and one sink.  A caller that can take *)
(* a step takes it in the end; a caller waiting in Lock gets the mutex in  *)
(* the end if it is free again and again (sync.Mutex lets no waiter        *)
(* starve); a write in the sink ends, with success or with an error.       *)
(***************************************************************************)
LiveHandlers == 2     \* handlers of ShortChain that Handle is called on

LiveNext ==
    \/ \E t \in Threads, h \in 1..LiveHandlers, r \in Records : HandleFormat(t, h, r)
    \/ \E t \in Threads : HandleLock(t)
    \/ \E t \in Threads : SinkWrite(t)
    \/ \E t \in Threads, err \in SinkErrors : SinkFail(t, err)
    \/ \E t \in Threads : HandleReturn(t)

Fairness ==
    \A t \in Threads :
        /\ SF_vars(HandleLock(t))
        /\ WF_vars(SinkWrite(t) \/ \E err \in SinkErrors : SinkFail(t, err))
        /\ WF_vars(HandleReturn(t))

LiveSpec == EquivInit /\ [][LiveNext]_vars /\ Fairness

(***************************************************************************)
(* C29: if every write of the sink returns and scheduling is fair, every   *)
(* Handle call that has begun returns, and a mutex that is held is free    *)
(* again later; a mutex is held only by a caller between its Lock and its  *)
(* return, whether the write succeeded or failed, and no caller waits for  *)
(* a mutex it holds itself.                                                *)
(***************************************************************************)
C29_Inv ==
    /\ \A m \in DOMAIN mutex : mutex[m] # 0 => mutex[m] \in Holding /\ MutexOf(mutex[m]) = m
    /\ \A t \in Threads : pc[t] = "lock" => mutex[MutexOf(t)] # t

C29_HandleTerminates ==
    /\ []C29_Inv
    /\ \A t \in Threads : (pc[t] # "idle") ~> (pc[t] = "idle")
    /\ \A m \in 1..MaxHandlers : (mutex[m] # 0) ~> (mutex[m] = 0)

\* a caller waits in Lock for the mutex another caller holds in the middle
\* of its write, after a call whose write had failed has returned
C29_Witness ==
    /\ \E c \in Done : calls[c].ret \in SinkErrors
    /\ \E t, u \in Threads :
           /\ t # u
           /\ pc[t] = "lock"
           /\ pc[u] = "writing"
           /\ MutexOf(t) = MutexOf(u)
           /\ mutex[MutexOf(u)] = u

====
